---------------------------- MODULE Spec2Model ----------------------------
(***************************************************************************)
(* A model of the HHI-Bonner-JCAP record-management frontend: the API      *)
(* client (fetchApi, patientApi, dashboardApi, reportsApi), the patient    *)
(* views (PatientRecords, PatientDetail), the forms (NewPatientForm,       *)
(* EditPatientForm, NewVisitForm), the dashboard and the static pages.     *)
(* The Flask backend is not part of the sources; where a property depends  *)
(* on it, the backend is modelled from the specification (Server*, the     *)
(* derived-metrics operators).                                             *)
(*                                                                         *)
(* Each component has its own specification over the shared variables:     *)
(*   SpecFetch      fetchApi / exportReport on every kind of response      *)
(*   Spec           the pages and their handlers against the backend store *)
(*   SpecDates      the date strings the forms and pages put in requests   *)
(*   SpecGoals      the goals objects the forms put in requests            *)
(*   SpecRoundTrip  EditPatientForm on every map of goal flags             *)
(*   SpecMetrics    the change values and how the views display them       *)
(*   SpecSearch     SearchProvider: the debounce and the search responses  *)
(*   SpecReads      SearchProvider and RecentActivity: failed reads        *)
(*   SpecTable      the PatientRecords table: filter, sort, pages          *)
(*   SpecHome       the static add-client form (home.js)                   *)
(*   SpecAsync      the PatientRecords handlers split at their awaits      *)
(*   SpecSave       EditPatientForm in PatientDetail, split at its awaits  *)
(*   SpecFinance    FinancialReports and its CreateReportModal             *)
(*   SpecVisitForm  NewVisitForm across closing and reopening              *)
(*   SpecRanges     Dashboard and Reports: the fetches of the date range   *)
(*   SpecDelete     PatientRecords: the page fetched after a delete        *)
(***************************************************************************)
EXTENDS Integers, Sequences, FiniteSets, TLC

VARIABLES
    \* ---- API client (services/api.ts) ----
    fetchResponse,   \* the HTTP response handed to the last call, or NoResponse
    fetchCaller,     \* "none" | "fetchApi" | "exportReport"
    fetchOutcome,    \* what the call settled with (Resolve / Reject), or NoOutcome
    \* ---- backend store (patients, visits, goals tables) ----
    dbPatients,      \* client ids of the patient rows
    dbVisits,        \* visit rows [id, client_id, has_goals]: has_goals is what
                     \* the creating request recorded (did it carry goals)
    dbGoals,         \* goals rows [client_id, active]
    \* ---- the page that is mounted, and its component state ----
    route,           \* "records" | "detail" | "profile" | "home"
    patients,        \* PatientRecords.patients (ids of the fetched page)
    pagination,      \* PatientRecords.pagination
    selectedPatient, \* PatientRecords.selectedPatient (0 = null)
    isDeleteModalOpen,
    isNewPatientFormOpen,
    isEditFormOpen,  \* of the mounted view (PatientRecords or PatientDetail)
    isNewVisitFormOpen,
    clientId,        \* PatientDetail useParams().clientId / profile.js client_id
    patientData,     \* PatientDetail.patientData (NoPatientData = null)
    visitList,       \* profile.js: the visit ids displayed by displayVisits
    toastMessage,    \* the mounted view's toast / popup / alert
    formError,       \* the `error` state of the open form
    lastRequest,     \* the mutating request the last handler made and how it
                     \* ended (NoRequest when it made none)
    \* ---- dates: the date inputs of the open form or page ----
    timezoneOffset,  \* the browser's UTC offset in hours
    datePage,        \* "none" | "dashboard" | "reports" | "newPatient" |
                     \* "editPatient" | "newVisit"
    dateRange,       \* Dashboard / Reports dateRange [start, end]
    dateInputs,      \* the form's date inputs [birthdate, firstVisitDate, visitDate]
    patientBirthdate,\* EditPatientForm: patient.birthdate as the API returned it
    birthdateTouched,\* EditPatientForm: the user changed the birth-date input
    dateRequest,     \* the dates in the request(s) of the last step
    \* ---- goals: the goal checkboxes of the open form ----
    goalForm,        \* "none" | "newPatient" | "editPatient" | "newVisit" | "visitLegacy"
    latestGoals,     \* the latestGoals prop (NoLatestGoals = null)
    selectedGoals,   \* the form's selectedGoals (display names)
    initialGoals,    \* NewVisitForm.initialGoals
    editingGoals,    \* NewVisitForm.editingGoals
    goalsToggled,    \* a checkbox was toggled since latestGoals was loaded
    goalsRequest,    \* the `goals` member of the request of the last step
    \* ---- derived metrics and their display ----
    visitHistory,    \* the patient's visits, oldest first (weights)
    latestChanges,   \* latest_changes of GET /patients/{id}
    recentChanges,   \* what PatientDetail's Recent Changes section shows
    metricsData,     \* Dashboard.metricsData.total_visits
    statCard,        \* the change and trend props of the StatCard
    \* ---- SearchProvider (SearchContext.tsx) ----
    searchQuery,
    isSearching,
    searchResults,   \* client ids of the results
    searchError,     \* SearchProvider.error
    searchTimers,    \* the pending debounce timers (the query each will search)
    searchCleanup,   \* the timer the effect's clean-up will clear, or NoTimer
    searchRequests,  \* searchPatients calls in flight, per query
    searchReply,     \* the settlement searchPatients handled last
    \* ---- RecentActivity ----
    activities,
    activityLoading,
    activityError,
    activityRequests,\* fetchRecentActivity calls in flight
    clearingActivities,
    showConfirmation,
    activityReply,   \* the settlement RecentActivity handled last
    \* ---- PatientRecords: the table ----
    patientRows,     \* PatientRecords.patients with the columns of each row
    recordsSearchQuery, \* PatientRecords.searchQuery
    sortField,
    sortDirection,
    recordsError,    \* PatientRecords.error is set
    listRequest,     \* the handler of the last step and the getPatients request
                     \* it sent, if any
    filteredRows,    \* filterPatients(patients, searchQuery) of the last render
    shownRows,       \* filteredAndSortedPatients of the last render
    patientToDelete, \* selectedPatient.id while the delete modal is open, else 0
    \* ---- the static add-client form (home.js) ----
    clientForm,      \* the values of the fields the submit handler reads
    clientAlert,     \* the alert the last submit raised, or "none"
    clientRequest,   \* whether the last step was a submit, and whether it sent
                     \* the form in POST /patients
    \* ---- PatientRecords: its handlers and their awaits ----
    storedPatients,  \* the client ids the backend holds
    listedPatients,  \* PatientRecords.patients (ids of the fetched rows)
    loading,
    loadError,       \* PatientRecords.error is set
    chosenPatient,   \* PatientRecords.selectedPatient, by its id (0 = null)
    deleteModalOpen, \* PatientRecords.isDeleteModalOpen
    editFormOpen,    \* PatientRecords.isEditFormOpen
    newPatientFormOpen, \* PatientRecords.isNewPatientFormOpen
    mountFetch,      \* the effect's getPatients is in flight
    editFetches,     \* the patients whose getPatientById (Edit) is in flight
    listFetches,     \* getPatients calls of the other handlers in flight
    deleteCalls,     \* the targets of the DELETE requests in flight
    deleteClicked,   \* the row whose Delete button opened the modal (0 = none)
    deleteSent,      \* the handler of the last step and the DELETE it sent
    \* ---- PatientDetail and its EditPatientForm ----
    storedAge,       \* the patient's age on the backend
    shownAge,        \* PatientDetail.patientData, by its age (0 = null)
    detailLoading,   \* PatientDetail.loading
    detailError,     \* PatientDetail.error is set
    detailMount,     \* the effect's getPatientById is in flight
    detailFormOpen,  \* PatientDetail.isEditFormOpen
    formLoading,     \* EditPatientForm.loading
    updateCalls,     \* updatePatient calls in flight, per age submitted
    refetchCalls,    \* handleEditPatient's getPatientById calls in flight
    detailToast,     \* "none" | "success" | "error"
    saveSent,        \* the handler of the last step and whether it sent an update
    \* ---- FinancialReports and its CreateReportModal ----
    reports,         \* FinancialReports.reports: how many reports each year has
    isModalOpen,
    formDataYear,    \* CreateReportModal.formData.year
    modalIsLoading,  \* CreateReportModal.isLoading
    yearFetches,     \* fetchYearData calls in flight
    financeToast,    \* "none" | "success"
    reportSubmitted, \* the last step was a submit
    \* ---- NewVisitForm as PatientDetail opens and closes it ----
    visitFormIsOpen, \* the isOpen prop of the mounted NewVisitForm
    \* ---- Dashboard and Reports: the fetches of the date range ----
    dashboardRange,  \* Dashboard.dateRange
    dashboardLoading,
    dashboardError,  \* Dashboard.error is set
    dashboardMetrics,\* Dashboard.metricsData: the range it answers (NoData = null)
    dashboardTrends, \* Dashboard.trendsData: the end date it answers
    dashboardFetches,\* the fetchDashboardData calls in flight and their await
    reportsRange,    \* Reports.dateRange
    reportsLoading,
    reportsError,    \* Reports.error is set
    reportData,      \* Reports.reportData: the range it answers (NoData = {})
    reportsFetches   \* the ranges of the fetchReportData calls in flight

fetchVars == <<fetchResponse, fetchCaller, fetchOutcome>>

dbVars == <<dbPatients, dbVisits, dbGoals>>

viewVars ==
    <<route, patients, pagination, selectedPatient, isDeleteModalOpen,
      isNewPatientFormOpen, isEditFormOpen, isNewVisitFormOpen, clientId,
      patientData, visitList, toastMessage, formError>>

appVars == <<dbVars, viewVars, lastRequest>>

dateVars ==
    <<timezoneOffset, datePage, dateRange, dateInputs, patientBirthdate,
      birthdateTouched, dateRequest>>

goalVars ==
    <<goalForm, latestGoals, selectedGoals, initialGoals, editingGoals,
      goalsToggled, goalsRequest>>

metricVars == <<visitHistory, latestChanges, recentChanges, metricsData, statCard>>

searchVars ==
    <<searchQuery, isSearching, searchResults, searchError, searchTimers,
      searchCleanup, searchRequests, searchReply>>

activityVars ==
    <<activities, activityLoading, activityError, activityRequests,
      clearingActivities, showConfirmation, activityReply>>

readVars == <<searchVars, activityVars>>

tableVars ==
    <<patientRows, recordsSearchQuery, sortField, sortDirection, recordsError,
      listRequest, filteredRows, shownRows, patientToDelete>>

homeVars == <<clientForm, clientAlert, clientRequest>>

asyncVars ==
    <<storedPatients, listedPatients, loading, loadError, chosenPatient,
      deleteModalOpen, editFormOpen, newPatientFormOpen, mountFetch, editFetches,
      listFetches, deleteCalls, deleteClicked, deleteSent>>

saveVars ==
    <<storedAge, shownAge, detailLoading, detailError, detailMount,
      detailFormOpen, formLoading, updateCalls, refetchCalls, detailToast,
      saveSent>>

financeVars ==
    <<reports, isModalOpen, formDataYear, modalIsLoading, yearFetches,
      financeToast, reportSubmitted>>

\* the components added last
rangeVars ==
    <<dashboardRange, dashboardLoading, dashboardError, dashboardMetrics,
      dashboardTrends, dashboardFetches, reportsRange, reportsLoading,
      reportsError, reportData, reportsFetches>>

lateVars == <<financeVars, visitFormIsOpen, rangeVars>>

\* the variables of the later components
moreVars == <<readVars, tableVars, homeVars, asyncVars, saveVars, lateVars>>

\* Spec's variables apart from pagination, which the table shares
appVarsButPagination ==
    <<dbVars, route, patients, selectedPatient, isDeleteModalOpen,
      isNewPatientFormOpen, isEditFormOpen, isNewVisitFormOpen, clientId,
      patientData, visitList, toastMessage, formError, lastRequest>>

vars == <<fetchVars, appVars, dateVars, goalVars, metricVars, moreVars>>

\* What each component's steps leave alone: the other components.
notFetch == <<appVars, dateVars, goalVars, metricVars, moreVars>>

notApp == <<fetchVars, dateVars, goalVars, metricVars, moreVars>>

notDates == <<fetchVars, appVars, goalVars, metricVars, moreVars>>

notGoals == <<fetchVars, appVars, dateVars, metricVars, moreVars>>

notMetrics == <<fetchVars, appVars, dateVars, goalVars, moreVars>>

\* every earlier component
firstVars == <<fetchVars, appVars, dateVars, goalVars, metricVars>>

notReads == <<firstVars, tableVars, homeVars, asyncVars, saveVars, lateVars>>

notTable ==
    <<fetchVars, appVarsButPagination, dateVars, goalVars, metricVars, readVars,
      homeVars, asyncVars, saveVars, lateVars>>

notHome == <<firstVars, readVars, tableVars, asyncVars, saveVars, lateVars>>

notAsync == <<firstVars, readVars, tableVars, homeVars, saveVars, lateVars>>

notSave == <<firstVars, readVars, tableVars, homeVars, asyncVars, lateVars>>

\* every component before the last ones
earlierVars == <<firstVars, readVars, tableVars, homeVars, asyncVars, saveVars>>

notFinance == <<earlierVars, visitFormIsOpen, rangeVars>>

notRanges == <<earlierVars, financeVars, visitFormIsOpen>>

\* what the NewVisitForm steps leave alone besides the goals
notVisitForm ==
    <<fetchVars, appVars, dateVars, metricVars, readVars, tableVars, homeVars,
      asyncVars, saveVars, financeVars, rangeVars>>

(***************************************************************************)
(* HTTP responses.  A response has a status and a body; response.ok is     *)
(* status in 200..299.  A body is text that is not JSON, the JSON value    *)
(* null, or a JSON object that may carry an `error` field.                 *)
(***************************************************************************)
Statuses == {200, 201, 400, 404, 409, 422, 500, 503}

ServerErrors == {"Patient not found", "Missing required fields", "Database error"}

\* the `error` field of a JSON object body: absent, the empty string, or a text
NoError == "<absent>"

Bodies ==
    {[kind |-> "text", error |-> NoError], [kind |-> "null", error |-> NoError]}
        \cup {[kind |-> "object", error |-> e] : e \in ServerErrors \cup {NoError, ""}}

Responses == [status : Statuses, body : Bodies]

ResponseOk(r) == r.status >= 200 /\ r.status <= 299

NoResponse == [status |-> 0, body |-> [kind |-> "none", error |-> NoError]]

\* settled promises
Resolve(v) == [settled |-> "resolved", message |-> "", value |-> v]

Reject(m) == [settled |-> "rejected", message |-> m, value |-> NoResponse.body]

NoOutcome == [settled |-> "pending", message |-> "", value |-> NoResponse.body]

\* `API error: ${response.status}`
GenericApiError(r) == "API error: " \o ToString(r.status)

\* response.json(): rejects with a SyntaxError when the body is not JSON
ResponseJson(r) ==
    IF r.body.kind = "text"
        THEN Reject("SyntaxError: Unexpected token")
        ELSE Resolve(r.body)

\* The try block of the !response.ok branch: it always ends by throwing,
\* either from response.json(), from reading .error of null, or at the
\* `throw new Error(errorData.error || ...)` statement.
ErrorBranchTry(r) ==
    LET parsed == ResponseJson(r) IN
    IF parsed.settled = "rejected" THEN parsed
    ELSE IF r.body.kind = "null" THEN Reject("TypeError: Cannot read properties of null")
    ELSE IF r.body.error \notin {NoError, ""} THEN Reject(r.body.error)
    ELSE Reject(GenericApiError(r))

\* The catch block around it catches every one of those throws, the
\* `throw new Error(errorData.error ...)` included, and throws the generic error.
ErrorBranch(r) ==
    LET thrown == ErrorBranchTry(r) IN
    IF thrown.settled = "rejected" THEN Reject(GenericApiError(r)) ELSE thrown

\* fetchApi(endpoint, options), given the response fetch() resolved with
FetchApi(r) ==
    IF ~ResponseOk(r) THEN ErrorBranch(r) ELSE ResponseJson(r)

\* reportsApi.exportReport: the same error branch, and the raw response on success
ExportReport(r) ==
    IF ~ResponseOk(r) THEN ErrorBranch(r) ELSE Resolve(r.body)

FetchIdle ==
    /\ fetchResponse = NoResponse
    /\ fetchCaller = "none"
    /\ fetchOutcome = NoOutcome

CallFetchApi ==
    \E r \in Responses :
        /\ fetchResponse' = r
        /\ fetchCaller' = "fetchApi"
        /\ fetchOutcome' = FetchApi(r)
        /\ UNCHANGED notFetch

CallExportReport ==
    \E r \in Responses :
        /\ fetchResponse' = r
        /\ fetchCaller' = "exportReport"
        /\ fetchOutcome' = ExportReport(r)
        /\ UNCHANGED notFetch

FetchNext == CallFetchApi \/ CallExportReport

\* the response of the last call was an error response whose JSON body has an
\* `error` text
ServerSentError ==
    /\ fetchCaller # "none"
    /\ ~ResponseOk(fetchResponse)
    /\ fetchResponse.body.kind = "object"
    /\ fetchResponse.body.error \notin {NoError, ""}

\* C1: when the response is not OK and its JSON body has an `error` field, the
\* call rejects with exactly that text; the generic `API error: <status>` is
\* used only when the body is not JSON or has no `error` field.
C1_ServerErrorIsTheMessage ==
    /\ ServerSentError =>
          /\ fetchOutcome.settled = "rejected"
          /\ fetchOutcome.message = fetchResponse.body.error
    /\ (/\ fetchCaller # "none"
        /\ fetchOutcome.settled = "rejected"
        /\ fetchOutcome.message = GenericApiError(fetchResponse))
          => ~ServerSentError


(***************************************************************************)
(* The backend store.  The Flask handlers are not in the sources: the      *)
(* store follows the data model of the specification (a Visit and a        *)
(* HealthGoals row belong to one Patient; goals are overwritten wholesale; *)
(* deleting a Patient removes its dependents).                             *)
(***************************************************************************)
MaxVisits == 2

\* two patients tell "this patient's rows" from "another patient's rows"
ClientIds == {1, 2}

VisitIds == 1..MaxVisits

\* the goal sets a form may send with a request (the 13-key object itself is
\* modelled with the forms, below); NoGoals = the payload has no `goals`
GoalChoices == {{}, {"quit_smoking"}}

NoGoals == {"<no goals>"}

Min(S) == CHOOSE x \in S : \A y \in S : x <= y

\* requests, as the API client builds them
Request(method, resource, cid, vid, goals) ==
    [method |-> method, resource |-> resource, client_id |-> cid,
     visit_id |-> vid, goals |-> goals]

\* the state of the three tables
Db(ps, vs, gs) == [patients |-> ps, visits |-> vs, goals |-> gs]

\* goals rows of a patient are replaced as a whole
PutGoals(gs, cid, goals) ==
    IF goals = NoGoals THEN gs
    ELSE {g \in gs : g.client_id # cid} \cup {[client_id |-> cid, active |-> goals]}

\* a reply: the new store, the response, and the id the request created
Reply(db, status, error, id) ==
    [db |-> db,
     response |-> [status |-> status,
                   body |-> [kind |-> "object", error |-> error]],
     id |-> id]

NotFound(db, what) == Reply(db, 404, what, 0)

\* POST /patients
ServerCreatePatient(db, req) ==
    LET free == ClientIds \ db.patients IN
    IF free = {} THEN Reply(db, 400, "Database error", 0)
    ELSE LET cid == Min(free) IN
         Reply(Db(db.patients \cup {cid}, db.visits, PutGoals(db.goals, cid, req.goals)),
               201, NoError, cid)

\* PATCH /patients/{id}
ServerUpdatePatient(db, req) ==
    IF req.client_id \notin db.patients THEN NotFound(db, "Patient not found")
    ELSE Reply(Db(db.patients, db.visits, PutGoals(db.goals, req.client_id, req.goals)),
               200, NoError, req.client_id)

\* DELETE /patients/{id}: the patient row and every row that references it
ServerDeletePatient(db, req) ==
    IF req.client_id \notin db.patients THEN NotFound(db, "Patient not found")
    ELSE Reply(Db(db.patients \ {req.client_id},
                  {v \in db.visits : v.client_id # req.client_id},
                  {g \in db.goals : g.client_id # req.client_id}),
               200, NoError, req.client_id)

\* POST /patients/{id}/visits
ServerAddVisit(db, req) ==
    LET free == VisitIds \ {v.id : v \in db.visits} IN
    IF req.client_id \notin db.patients THEN NotFound(db, "Patient not found")
    ELSE IF free = {} THEN Reply(db, 400, "Database error", 0)
    ELSE LET vid == Min(free) IN
         Reply(Db(db.patients,
                  db.visits \cup {[id |-> vid, client_id |-> req.client_id,
                                     has_goals |-> req.goals # NoGoals]},
                  PutGoals(db.goals, req.client_id, req.goals)),
               201, NoError, vid)

\* DELETE /patients/{id}/visits/{visitId}
ServerDeleteVisit(db, req) ==
    IF ~\E v \in db.visits : v.id = req.visit_id /\ v.client_id = req.client_id
        THEN NotFound(db, "Visit not found")
    ELSE Reply(Db(db.patients, {v \in db.visits : v.id # req.visit_id}, db.goals),
               200, NoError, req.visit_id)

\* GET /patients/{id} and the other reads change nothing
ServerRead(db, req) ==
    IF req.client_id # 0 /\ req.client_id \notin db.patients
        THEN NotFound(db, "Patient not found")
    ELSE Reply(db, 200, NoError, req.client_id)

\* the routes of the REST surface
ServerRoute(db, req) ==
    CASE req.method = "POST" /\ req.resource = "patients" -> ServerCreatePatient(db, req)
      [] req.method = "PATCH" /\ req.resource = "patient" -> ServerUpdatePatient(db, req)
      [] req.method = "DELETE" /\ req.resource = "patient" -> ServerDeletePatient(db, req)
      [] req.method = "POST" /\ req.resource = "visits" -> ServerAddVisit(db, req)
      [] req.method = "DELETE" /\ req.resource = "visit" -> ServerDeleteVisit(db, req)
      [] req.method = "GET" -> ServerRead(db, req)
      [] OTHER -> Reply(db, 405, "Method not allowed", 0)

\* a request may also fail without reaching a handler (the server is down or
\* answers 500 with an HTML page): nothing is stored
ServerDown(db) ==
    [db |-> db,
     response |-> [status |-> 500, body |-> [kind |-> "text", error |-> NoError]],
     id |-> 0]

Server(db, req, up) == IF up THEN ServerRoute(db, req) ELSE ServerDown(db)

CurrentDb == Db(dbPatients, dbVisits, dbGoals)

\* GET /patients?page=&limit=: the rows of the page and the pagination record
Pages(total, limit) == (total + limit - 1) \div limit

ServerPatientList(db, page, limit) ==
    [patients |-> {c \in db.patients :
                      LET rank == Cardinality({d \in db.patients : d < c}) IN
                      rank >= (page - 1) * limit /\ rank < page * limit},
     pagination |-> [total |-> Cardinality(db.patients), page |-> page,
                     limit |-> limit, pages |-> Pages(Cardinality(db.patients), limit)]]

\* GET /patients/{id}: patient_info, latest_goals and the visit trend
ServerPatientDetail(db, cid) ==
    [client_id |-> cid,
     trend |-> {v.id : v \in {w \in db.visits : w.client_id = cid}},
     latest_goals |-> {g.active : g \in {h \in db.goals : h.client_id = cid}}]


(***************************************************************************)
(* patientApi (services/api.ts): the requests the client sends.            *)
(***************************************************************************)
GetPatients == Request("GET", "patients", 0, 0, NoGoals)

GetPatientById(cid) == Request("GET", "patient", cid, 0, NoGoals)

CreatePatient(goals) == Request("POST", "patients", 0, 0, goals)

\* a variant of updatePatient that writes to the visits resource
UpdatePatientThroughVisits(cid, goals) == Request("POST", "visits", cid, 0, goals)
UpdatePatient(cid, goals) == Request("PATCH", "patient", cid, 0, goals)

\* deletePatient without the `method: "DELETE"` option: fetch sends a GET
DeletePatientWithoutMethod(cid) == Request("GET", "patient", cid, 0, NoGoals)

DeletePatient(cid) == Request("DELETE", "patient", cid, 0, NoGoals)

AddPatientVisit(cid, goals) == Request("POST", "visits", cid, 0, goals)

GetPatientVisits(cid) == Request("GET", "visits", cid, 0, NoGoals)

\* profile.js deleteVisit: DELETE /patients/${client_id}/visits/${visit_id}
DeleteVisit(cid, vid) == Request("DELETE", "visit", cid, vid, NoGoals)

\* a request sent through fetchApi against the current store
Call(db, req, up) ==
    LET reply == Server(db, req, up) IN
    [db |-> reply.db, outcome |-> FetchApi(reply.response),
     ok |-> ResponseOk(reply.response), status |-> reply.response.status,
     id |-> reply.id]

Resolved(call) == call.outcome.settled = "resolved"

SetDb(db) ==
    /\ dbPatients' = db.patients
    /\ dbVisits' = db.visits
    /\ dbGoals' = db.goals

(***************************************************************************)
(* Component state.  One page is mounted at a time; mounting a page        *)
(* resets its state to the useState initial values and runs its fetch      *)
(* effect.  Handlers are taken as one step, request and response           *)
(* included.  The production build is modelled (no development sample      *)
(* data).                                                                  *)
(***************************************************************************)
PageLimit == 100

NoToast == [message |-> "", type |-> "none"]

Toast(message, type) == [message |-> message, type |-> type]

NoPatientData == [client_id |-> 0, trend |-> {}, latest_goals |-> {}]

InitialPagination == [total |-> 0, page |-> 1, limit |-> PageLimit, pages |-> 0]

NoRequest == [op |-> "none", target |-> 0, ok |-> TRUE, error |-> "", had |-> 0]

\* the visit and goals rows that reference a patient
Dependents(db, cid) ==
    Cardinality({v \in db.visits : v.client_id = cid})
        + Cardinality({g \in db.goals : g.client_id = cid})

\* a mutating request: what the handler asked for, on which patient, how the
\* request ended, and how many rows referenced the patient when it was sent
Sent(op, target, ok, error) ==
    [op |-> op, target |-> target, ok |-> ok, error |-> error,
     had |-> Dependents(CurrentDb, target)]

Mutation(op, target, call) == Sent(op, target, Resolved(call), call.outcome.message)

Record(req) == lastRequest' = req

\* a handler that sends no mutating request
ReadOnly ==
    /\ UNCHANGED dbVars
    /\ lastRequest' = NoRequest

\* no modal covers the page (each modal is a fixed full-screen overlay)
NoModal ==
    /\ ~isDeleteModalOpen
    /\ ~isNewPatientFormOpen
    /\ ~isEditFormOpen
    /\ ~isNewVisitFormOpen

\* PatientRecords: useEffect(fetchPatients) on mount
MountRecords ==
    \E up \in BOOLEAN :
        LET call == Call(CurrentDb, GetPatients, up)
            data == ServerPatientList(CurrentDb, InitialPagination.page,
                                      InitialPagination.limit)
        IN  /\ route' = "records"
            /\ patients' = IF Resolved(call) THEN data.patients ELSE {}
            /\ pagination' = IF Resolved(call) THEN data.pagination ELSE InitialPagination
            /\ selectedPatient' = 0
            /\ isDeleteModalOpen' = FALSE
            /\ isNewPatientFormOpen' = FALSE
            /\ isEditFormOpen' = FALSE
            /\ isNewVisitFormOpen' = FALSE
            /\ clientId' = 0
            /\ patientData' = NoPatientData
            /\ visitList' = {}
            /\ toastMessage' = NoToast
            /\ formError' = ""
            /\ ReadOnly
            /\ UNCHANGED notApp

\* PatientDetail: useEffect(fetchPatientData) on mount, clientId from the URL
MountDetail ==
    \E cid \in ClientIds, up \in BOOLEAN :
        LET call == Call(CurrentDb, GetPatientById(cid), up) IN
        /\ route' = "detail"
        /\ clientId' = cid
        /\ patientData' = IF Resolved(call) THEN ServerPatientDetail(CurrentDb, cid)
                          ELSE NoPatientData
        /\ patients' = {}
        /\ pagination' = InitialPagination
        /\ selectedPatient' = 0
        /\ isDeleteModalOpen' = FALSE
        /\ isNewPatientFormOpen' = FALSE
        /\ isEditFormOpen' = FALSE
        /\ isNewVisitFormOpen' = FALSE
        /\ visitList' = {}
        /\ toastMessage' = NoToast
        /\ formError' = ""
        /\ ReadOnly
        /\ UNCHANGED notApp


(***************************************************************************)
(* PatientRecords, with NewPatientForm and EditPatientForm.                *)
(***************************************************************************)
\* filteredAndSortedPatients with the initial (empty) search text
FilteredAndSortedPatients == patients

\* what PatientRecords leaves alone: the state of the other pages
RecordsFrame ==
    UNCHANGED <<route, isNewVisitFormOpen, clientId, patientData, visitList, notApp>>

\* the "Add New Patient" button, and the form's close button
OpenNewPatientForm ==
    /\ route = "records" /\ NoModal
    /\ isNewPatientFormOpen' = TRUE
    /\ ReadOnly
    /\ UNCHANGED <<patients, pagination, selectedPatient,
                   isDeleteModalOpen, isEditFormOpen, toastMessage, formError>>
    /\ RecordsFrame

CloseNewPatientForm ==
    /\ route = "records" /\ isNewPatientFormOpen
    /\ isNewPatientFormOpen' = FALSE
    /\ ReadOnly
    /\ UNCHANGED <<patients, pagination, selectedPatient,
                   isDeleteModalOpen, isEditFormOpen, toastMessage, formError>>
    /\ RecordsFrame

\* NewPatientForm.handleSubmit, catch branch: the form shows the error
NewPatientFailed(message) ==
    /\ formError' = message
    /\ UNCHANGED <<isNewPatientFormOpen, toastMessage, patients, pagination>>

\* PatientRecords.handleNewPatientSubmit (the form's onSubmit callback):
\* close the form, toast, refetch page 1
HandleNewPatientSubmit(list, data) ==
    /\ formError' = ""
    /\ isNewPatientFormOpen' = FALSE
    /\ toastMessage' = Toast("Patient added successfully", "success")
    /\ patients' = IF Resolved(list) THEN data.patients ELSE patients
    /\ pagination' = IF Resolved(list) THEN [data.pagination EXCEPT !.page = 1]
                     ELSE pagination

\* NewPatientForm.handleSubmit
NewPatientSubmit ==
    /\ route = "records" /\ isNewPatientFormOpen
    /\ \E goals \in GoalChoices, up \in BOOLEAN, up2 \in BOOLEAN :
        LET call == Call(CurrentDb, CreatePatient(goals), up)
            list == Call(call.db, GetPatients, up2)
            data == ServerPatientList(call.db, 1, pagination.limit)
        IN  /\ SetDb(call.db)
            /\ Record(Mutation("createPatient", call.id, call))
            /\ IF Resolved(call) THEN HandleNewPatientSubmit(list, data)
               ELSE NewPatientFailed(call.outcome.message)
    /\ UNCHANGED <<selectedPatient, isDeleteModalOpen, isEditFormOpen>>
    /\ RecordsFrame

\* PatientRecords.handleEditClick(patient): fetch the patient, open the form
HandleEditClick ==
    /\ route = "records" /\ NoModal
    /\ \E patient \in patients, up \in BOOLEAN :
        LET call == Call(CurrentDb, GetPatientById(patient), up) IN
        IF Resolved(call)
            THEN /\ selectedPatient' = patient
                 /\ isEditFormOpen' = TRUE
                 /\ UNCHANGED toastMessage
            ELSE /\ toastMessage' = Toast("Failed to load patient data for editing", "error")
                 /\ UNCHANGED <<selectedPatient, isEditFormOpen>>
    /\ ReadOnly
    /\ UNCHANGED <<patients, pagination,
                   isDeleteModalOpen, isNewPatientFormOpen, formError>>
    /\ RecordsFrame

\* the edit form's close button (PatientRecords and PatientDetail)
CloseEditForm ==
    /\ route \in {"records", "detail"} /\ isEditFormOpen
    /\ isEditFormOpen' = FALSE
    /\ ReadOnly
    /\ UNCHANGED <<patients, pagination, selectedPatient,
                   isDeleteModalOpen, isNewPatientFormOpen, toastMessage, formError>>
    /\ RecordsFrame

\* PatientRecords.handleEditSubmit, catch branch
EditSubmitFailed(message) ==
    /\ toastMessage' = Toast(message, "error")
    /\ UNCHANGED <<isEditFormOpen, patients>>

\* PatientRecords.handleEditSubmit after the update succeeded: close the
\* form, toast, refresh the list (the pagination is not refreshed here)
EditSubmitSucceeded(list, data) ==
    /\ isEditFormOpen' = FALSE
    /\ toastMessage' = Toast("Patient updated successfully", "success")
    /\ patients' = IF Resolved(list) THEN data.patients ELSE patients

\* EditPatientForm.handleSubmit -> PatientRecords.handleEditSubmit(data)
RecordsEditSubmit ==
    /\ route = "records" /\ isEditFormOpen /\ selectedPatient # 0
    /\ \E goals \in GoalChoices, up \in BOOLEAN, up2 \in BOOLEAN :
        LET call == Call(CurrentDb, UpdatePatient(selectedPatient, goals), up)
            list == Call(call.db, GetPatients, up2)
            data == ServerPatientList(call.db, pagination.page, pagination.limit)
        IN  /\ SetDb(call.db)
            /\ Record(Mutation("updatePatient", selectedPatient, call))
            /\ IF Resolved(call) THEN EditSubmitSucceeded(list, data)
               ELSE EditSubmitFailed(call.outcome.message)
    /\ UNCHANGED <<pagination, selectedPatient, isDeleteModalOpen,
                   isNewPatientFormOpen, formError>>
    /\ RecordsFrame

\* PatientRecords.handleDelete(patient): remember the row, ask to confirm
HandleDelete ==
    /\ route = "records" /\ NoModal
    /\ \E patient \in patients :
        /\ selectedPatient' = patient
        /\ isDeleteModalOpen' = TRUE
    /\ ReadOnly
    /\ UNCHANGED <<patients, pagination,
                   isNewPatientFormOpen, isEditFormOpen, toastMessage, formError>>
    /\ RecordsFrame

\* DeleteConfirmationModal onClose
CloseDeleteModal ==
    /\ route = "records" /\ isDeleteModalOpen
    /\ isDeleteModalOpen' = FALSE
    /\ ReadOnly
    /\ UNCHANGED <<patients, pagination, selectedPatient,
                   isNewPatientFormOpen, isEditFormOpen, toastMessage, formError>>
    /\ RecordsFrame

\* an optimistic variant: the row is removed from the list before the request's result is known
DeleteConfirmFailedOptimistic(message) ==
    /\ toastMessage' = Toast(message, "error")
    /\ isDeleteModalOpen' = FALSE
    /\ patients' = patients \ {selectedPatient}
    /\ UNCHANGED pagination

\* PatientRecords.handleDeleteConfirm, catch branch
DeleteConfirmFailed(message) ==
    /\ toastMessage' = Toast(message, "error")
    /\ isDeleteModalOpen' = FALSE
    /\ UNCHANGED <<patients, pagination>>

\* the page to show after a delete
NewPage ==
    IF Cardinality(FilteredAndSortedPatients) = 1 /\ pagination.page > 1
        THEN pagination.page - 1
        ELSE pagination.page

\* PatientRecords.handleDeleteConfirm after the delete succeeded
DeleteConfirmSucceeded(list, data) ==
    /\ isDeleteModalOpen' = FALSE
    /\ toastMessage' = Toast("Patient deleted successfully", "success")
    /\ patients' = IF Resolved(list) THEN data.patients ELSE patients
    /\ pagination' = IF Resolved(list) THEN [data.pagination EXCEPT !.page = NewPage]
                     ELSE pagination

\* PatientRecords.handleDeleteConfirm (the modal's confirm button)
HandleDeleteConfirm ==
    /\ route = "records" /\ isDeleteModalOpen /\ selectedPatient # 0
    /\ \E up \in BOOLEAN, up2 \in BOOLEAN :
        LET call == Call(CurrentDb, DeletePatient(selectedPatient), up)
            list == Call(call.db, GetPatients, up2)
            data == ServerPatientList(call.db, NewPage, pagination.limit)
        IN  /\ SetDb(call.db)
            /\ Record(Mutation("deletePatient", selectedPatient, call))
            /\ IF Resolved(call) THEN DeleteConfirmSucceeded(list, data)
               ELSE DeleteConfirmFailed(call.outcome.message)
    /\ UNCHANGED <<selectedPatient, isNewPatientFormOpen, isEditFormOpen, formError>>
    /\ RecordsFrame

\* Toast: the 3 s timer or its close button (setToastMessage(null))
CloseToast ==
    /\ toastMessage # NoToast
    /\ toastMessage' = NoToast
    /\ ReadOnly
    /\ UNCHANGED <<patients, pagination, selectedPatient,
                   isDeleteModalOpen, isNewPatientFormOpen, isEditFormOpen, formError>>
    /\ RecordsFrame


(***************************************************************************)
(* PatientDetail, with NewVisitForm and EditPatientForm.  Its buttons are  *)
(* rendered only once patientData is loaded.                               *)
(***************************************************************************)
DetailFrame ==
    UNCHANGED <<route, patients, pagination, selectedPatient, isDeleteModalOpen,
                isNewPatientFormOpen, clientId, visitList, notApp>>

DetailLoaded == route = "detail" /\ patientData # NoPatientData

\* the "New Visit" and "Edit Patient" buttons, and the visit form's close button
OpenNewVisitForm ==
    /\ DetailLoaded /\ NoModal
    /\ isNewVisitFormOpen' = TRUE
    /\ ReadOnly
    /\ UNCHANGED <<isEditFormOpen, patientData,
                   toastMessage, formError>>
    /\ DetailFrame

CloseNewVisitForm ==
    /\ route = "detail" /\ isNewVisitFormOpen
    /\ isNewVisitFormOpen' = FALSE
    /\ ReadOnly
    /\ UNCHANGED <<isEditFormOpen, patientData,
                   toastMessage, formError>>
    /\ DetailFrame

OpenEditForm ==
    /\ DetailLoaded /\ NoModal
    /\ isEditFormOpen' = TRUE
    /\ ReadOnly
    /\ UNCHANGED <<isNewVisitFormOpen, patientData,
                   toastMessage, formError>>
    /\ DetailFrame

\* NewVisitForm.handleSubmit, catch branch: the form shows the error
NewVisitFailed(message) ==
    /\ formError' = message
    /\ UNCHANGED <<isNewVisitFormOpen, toastMessage, patientData>>

\* PatientDetail.handleNewVisit (the form's onSubmit callback)
HandleNewVisit(refetch, data) ==
    /\ formError' = ""
    /\ isNewVisitFormOpen' = FALSE
    /\ toastMessage' = Toast("Visit added successfully", "success")
    /\ patientData' = IF Resolved(refetch) THEN data ELSE patientData

\* NewVisitForm.handleSubmit; clientId is the prop patient.client_id
NewVisitSubmit ==
    /\ DetailLoaded /\ isNewVisitFormOpen
    /\ \E goals \in GoalChoices \cup {NoGoals}, up \in BOOLEAN, up2 \in BOOLEAN :
        LET cid == patientData.client_id
            call == Call(CurrentDb, AddPatientVisit(cid, goals), up)
            refetch == Call(call.db, GetPatientById(clientId), up2)
            data == ServerPatientDetail(call.db, clientId)
        IN  /\ SetDb(call.db)
            /\ Record(Mutation("addPatientVisit", cid, call))
            /\ IF Resolved(call) THEN HandleNewVisit(refetch, data)
               ELSE NewVisitFailed(call.outcome.message)
    /\ UNCHANGED isEditFormOpen
    /\ DetailFrame

\* PatientDetail.handleEditPatient, catch branch
EditPatientFailed(message) ==
    /\ toastMessage' = Toast(message, "error")
    /\ UNCHANGED <<isEditFormOpen, patientData>>

\* PatientDetail.handleEditPatient after the update succeeded
EditPatientSucceeded(refetch, data) ==
    /\ isEditFormOpen' = FALSE
    /\ toastMessage' = Toast("Patient updated successfully", "success")
    /\ patientData' = IF Resolved(refetch) THEN data ELSE patientData

\* EditPatientForm.handleSubmit -> PatientDetail.handleEditPatient(data)
DetailEditSubmit ==
    /\ DetailLoaded /\ isEditFormOpen /\ clientId # 0
    /\ \E goals \in GoalChoices, up \in BOOLEAN, up2 \in BOOLEAN :
        LET call == Call(CurrentDb, UpdatePatient(clientId, goals), up)
            refetch == Call(call.db, GetPatientById(clientId), up2)
            data == ServerPatientDetail(call.db, clientId)
        IN  /\ SetDb(call.db)
            /\ Record(Mutation("updatePatient", clientId, call))
            /\ IF Resolved(call) THEN EditPatientSucceeded(refetch, data)
               ELSE EditPatientFailed(call.outcome.message)
    /\ UNCHANGED <<isNewVisitFormOpen, formError>>
    /\ DetailFrame

(***************************************************************************)
(* The static pages: profile.js (one client's visits) and home.js (the     *)
(* add-client form).  They call fetch directly.                            *)
(***************************************************************************)
StaticFrame ==
    UNCHANGED <<patients, pagination, selectedPatient, isDeleteModalOpen,
                isNewPatientFormOpen, isEditFormOpen, isNewVisitFormOpen,
                patientData, formError, notApp>>

\* profile.js fetchVisits(client_id): the list shown, or an alert
VisitsShown(db, cid, up) ==
    LET reply == Server(db, GetPatientVisits(cid), up) IN
    [ok |-> ResponseOk(reply.response),
     visits |-> {v.id : v \in {w \in db.visits : w.client_id = cid}}]

\* profile.js on load: client_id from the URL, fetchClientData and fetchVisits
MountProfile ==
    \E cid \in ClientIds, up \in BOOLEAN :
        LET shown == VisitsShown(CurrentDb, cid, up) IN
        /\ route' = "profile"
        /\ clientId' = cid
        /\ visitList' = IF shown.ok THEN shown.visits ELSE {}
        /\ toastMessage' = IF shown.ok THEN NoToast
                           ELSE Toast("An error occurred while fetching visits.", "error")
        /\ ReadOnly
        /\ UNCHANGED notApp
        /\ patients' = {}
        /\ pagination' = InitialPagination
        /\ selectedPatient' = 0
        /\ isDeleteModalOpen' = FALSE
        /\ isNewPatientFormOpen' = FALSE
        /\ isEditFormOpen' = FALSE
        /\ isNewVisitFormOpen' = FALSE
        /\ patientData' = NoPatientData
        /\ formError' = ""

\* home.js on load
MountHome ==
    /\ route' = "home"
    /\ clientId' = 0
    /\ visitList' = {}
    /\ toastMessage' = NoToast
    /\ patients' = {}
    /\ pagination' = InitialPagination
    /\ selectedPatient' = 0
    /\ isDeleteModalOpen' = FALSE
    /\ isNewPatientFormOpen' = FALSE
    /\ isEditFormOpen' = FALSE
    /\ isNewVisitFormOpen' = FALSE
    /\ patientData' = NoPatientData
    /\ formError' = ""
    /\ ReadOnly
    /\ UNCHANGED notApp

\* profile.js addPatientVisit: the error text of the alert
ProfileAddVisitError(response) ==
    IF response.body.kind = "text" THEN "SyntaxError: Unexpected token"
    ELSE IF response.body.error \in {NoError, ""} THEN "Unknown error occurred."
    ELSE response.body.error

\* profile.js addPatientVisit(client_id)
ProfileAddVisit ==
    /\ route = "profile"
    /\ \E up \in BOOLEAN, up2 \in BOOLEAN :
        LET reply == Server(CurrentDb, AddPatientVisit(clientId, NoGoals), up)
            ok == ResponseOk(reply.response)
            shown == VisitsShown(reply.db, clientId, up2)
        IN  /\ SetDb(reply.db)
            /\ Record(Sent("addPatientVisit", clientId, ok, ""))
            /\ IF ok
                 THEN /\ visitList' = IF shown.ok THEN shown.visits ELSE visitList
                      /\ toastMessage' = Toast("Visit added successfully!", "success")
                 ELSE /\ toastMessage' =
                            Toast("An error occurred: "
                                    \o ProfileAddVisitError(reply.response), "error")
                      /\ UNCHANGED visitList
    /\ UNCHANGED <<route, clientId>>
    /\ StaticFrame

\* profile.js deleteVisit(visit_id), from the button of a displayed visit
ProfileDeleteVisit ==
    /\ route = "profile"
    /\ \E vid \in visitList, up \in BOOLEAN, up2 \in BOOLEAN :
        LET reply == Server(CurrentDb, DeleteVisit(clientId, vid), up)
            ok == ResponseOk(reply.response)
            shown == VisitsShown(reply.db, clientId, up2)
        IN  /\ SetDb(reply.db)
            /\ Record(Sent("deleteVisit", clientId, ok, ""))
            /\ IF ok
                 THEN /\ visitList' = IF shown.ok THEN shown.visits ELSE visitList
                      /\ toastMessage' = Toast("Visit deleted successfully!", "success")
                 ELSE /\ toastMessage' =
                            Toast("An error occurred while deleting the visit.", "error")
                      /\ UNCHANGED visitList
    /\ UNCHANGED <<route, clientId>>
    /\ StaticFrame

\* home.js clientForm submit with valid fields: POST /patients, then the
\* redirect to profile.html?id=<client_id>
HomeSubmit ==
    /\ route = "home"
    /\ \E up \in BOOLEAN, up2 \in BOOLEAN :
        LET reply == Server(CurrentDb, CreatePatient(NoGoals), up)
            ok == ResponseOk(reply.response)
            shown == VisitsShown(reply.db, reply.id, up2)
        IN  /\ SetDb(reply.db)
            /\ Record(Sent("createPatient", reply.id, ok, ""))
            /\ IF ok
                 THEN /\ route' = "profile"
                      /\ clientId' = reply.id
                      /\ visitList' = IF shown.ok THEN shown.visits ELSE {}
                      /\ toastMessage' =
                            IF shown.ok THEN NoToast
                            ELSE Toast("An error occurred while fetching visits.", "error")
                 ELSE /\ toastMessage' =
                            Toast("A server error occurred. Please try again.", "error")
                      /\ UNCHANGED <<route, clientId, visitList>>
    /\ StaticFrame

(***************************************************************************)
(* The application: the store starts empty with PatientRecords mounted.    *)
(***************************************************************************)
AppIdle ==
    /\ dbPatients = {}
    /\ dbVisits = {}
    /\ dbGoals = {}
    /\ route = "records"
    /\ patients = {}
    /\ pagination = InitialPagination
    /\ selectedPatient = 0
    /\ isDeleteModalOpen = FALSE
    /\ isNewPatientFormOpen = FALSE
    /\ isEditFormOpen = FALSE
    /\ isNewVisitFormOpen = FALSE
    /\ clientId = 0
    /\ patientData = NoPatientData
    /\ visitList = {}
    /\ toastMessage = NoToast
    /\ formError = ""
    /\ lastRequest = NoRequest

AppNext ==
    \/ MountRecords
    \/ MountDetail
    \/ MountProfile
    \/ MountHome
    \/ OpenNewPatientForm
    \/ CloseNewPatientForm
    \/ NewPatientSubmit
    \/ HandleEditClick
    \/ CloseEditForm
    \/ RecordsEditSubmit
    \/ HandleDelete
    \/ CloseDeleteModal
    \/ HandleDeleteConfirm
    \/ CloseToast
    \/ OpenNewVisitForm
    \/ CloseNewVisitForm
    \/ OpenEditForm
    \/ NewVisitSubmit
    \/ DetailEditSubmit
    \/ ProfileAddVisit
    \/ ProfileDeleteVisit
    \/ HomeSubmit

(***************************************************************************)
(* Text.  The code splits, pads and compares date strings, so a string is  *)
(* a sequence of one-character strings here; "" is the empty sequence.     *)
(***************************************************************************)
Digits == <<"0", "1", "2", "3", "4", "5", "6", "7", "8", "9">>

IsDigit(c) == \E i \in 1..10 : Digits[i] = c

DigitValue(c) == (CHOOSE i \in 1..10 : Digits[i] = c) - 1

IsNumeral(s) == s # <<>> /\ \A i \in 1..Len(s) : IsDigit(s[i])

\* Number(text) of a numeral
RECURSIVE ToNumber(_)
ToNumber(s) ==
    IF s = <<>> THEN 0
    ELSE 10 * ToNumber(SubSeq(s, 1, Len(s) - 1)) + DigitValue(s[Len(s)])

\* String(n) of a natural number
RECURSIVE NumberToString(_)
NumberToString(n) ==
    IF n < 10 THEN <<Digits[n + 1]>>
    ELSE NumberToString(n \div 10) \o <<Digits[(n % 10) + 1]>>

\* String(n).padStart(2, '0')
PadStart2(n) == IF n < 10 THEN <<"0">> \o NumberToString(n) ELSE NumberToString(n)

\* String(n).padStart(4, '0')
PadStart4(n) ==
    LET text == NumberToString(n)
    IN  IF Len(text) >= 4 THEN text
        ELSE SubSeq(<<"0", "0", "0">>, 1, 4 - Len(text)) \o text

Includes(s, c) == \E i \in 1..Len(s) : s[i] = c

\* s.split(sep): the pieces between the separators ("".split(sep) is [""])
RECURSIVE Split(_, _)
Split(s, sep) ==
    IF ~Includes(s, sep) THEN <<s>>
    ELSE LET i == CHOOSE k \in 1..Len(s) :
                      s[k] = sep /\ \A j \in 1..(k - 1) : s[j] # sep
         IN  <<SubSeq(s, 1, i - 1)>> \o Split(SubSeq(s, i + 1, Len(s)), sep)

\* what a template literal prints for a destructured element that is missing
Undefined == <<"u", "n", "d", "e", "f", "i", "n", "e", "d">>

Part(parts, i) == IF i <= Len(parts) THEN parts[i] ELSE Undefined

(***************************************************************************)
(* Calendar days and the JavaScript Date.  A Date is an instant: the UTC   *)
(* calendar day it falls on and the UTC hour.  The local getters read it   *)
(* in the browser's time zone, toISOString in UTC.                         *)
(***************************************************************************)
IsLeapYear(y) == (y % 4 = 0 /\ y % 100 # 0) \/ y % 400 = 0

DaysInMonth(y, m) ==
    IF m = 2 THEN (IF IsLeapYear(y) THEN 29 ELSE 28)
    ELSE IF m \in {4, 6, 9, 11} THEN 30 ELSE 31

Day(y, m, d) == [year |-> y, month |-> m, date |-> d]

IsValidDay(D) ==
    /\ D.month \in 1..12
    /\ D.date \in 1..DaysInMonth(D.year, D.month)

PrevDay(D) ==
    IF D.date > 1 THEN Day(D.year, D.month, D.date - 1)
    ELSE IF D.month > 1
         THEN Day(D.year, D.month - 1, DaysInMonth(D.year, D.month - 1))
         ELSE Day(D.year - 1, 12, 31)

NextDay(D) ==
    IF D.date < DaysInMonth(D.year, D.month)
    THEN Day(D.year, D.month, D.date + 1)
    ELSE IF D.month < 12 THEN Day(D.year, D.month + 1, 1)
         ELSE Day(D.year + 1, 1, 1)

\* The browser's UTC offset, in hours: west of, at, and east of Greenwich.
TimeZones == {-5, 0, 9}

InvalidDate == [day |-> Day(0, 0, 0), hour |-> 0, valid |-> FALSE]

Instant(D, h) == [day |-> D, hour |-> h, valid |-> TRUE]

\* the instant of hour `h` local time on local day D
FromLocal(D, h, offset) ==
    LET utc == h - offset
    IN  IF utc < 0 THEN Instant(PrevDay(D), utc + 24)
        ELSE IF utc >= 24 THEN Instant(NextDay(D), utc - 24)
        ELSE Instant(D, utc)

\* date.getFullYear() / getMonth() + 1 / getDate(): the local calendar day
LocalDay(date, offset) ==
    LET h == date.hour + offset
    IN  IF h < 0 THEN PrevDay(date.day)
        ELSE IF h >= 24 THEN NextDay(date.day)
        ELSE date.day

LocalHour(date, offset) == (date.hour + offset + 24) % 24

\* "YYYY-MM-DD", the value of an <input type="date">
IsoDate(D) ==
    PadStart4(D.year) \o <<"-">> \o PadStart2(D.month) \o <<"-">> \o PadStart2(D.date)

\* "MM/DD/YYYY"
UsDate(D) ==
    PadStart2(D.month) \o <<"/">> \o PadStart2(D.date) \o <<"/">> \o PadStart4(D.year)

IsIsoDate(s) ==
    /\ Len(s) = 10
    /\ s[5] = "-" /\ s[8] = "-"
    /\ \A i \in {1, 2, 3, 4, 6, 7, 9, 10} : IsDigit(s[i])

IsMMDDYYYY(s) ==
    /\ Len(s) = 10
    /\ s[3] = "/" /\ s[6] = "/"
    /\ \A i \in {1, 2, 4, 5, 7, 8, 9, 10} : IsDigit(s[i])

\* new Date(text).  "YYYY-MM-DD" is the date-only ISO form, which is UTC
\* midnight; "M/D/YYYY" is parsed as local midnight.  Only valid calendar
\* days are parsed here; any other text is an Invalid Date.
NewDate(text, offset) ==
    IF IsIsoDate(text)
    THEN LET p == Split(text, "-")
             D == Day(ToNumber(p[1]), ToNumber(p[2]), ToNumber(p[3]))
         IN  IF IsValidDay(D) THEN Instant(D, 0) ELSE InvalidDate
    ELSE LET p == Split(text, "/")
         IN  IF Len(p) = 3 /\ \A i \in 1..3 : IsNumeral(p[i])
             THEN LET D == Day(ToNumber(p[3]), ToNumber(p[1]), ToNumber(p[2]))
                  IN  IF IsValidDay(D) THEN FromLocal(D, 0, offset) ELSE InvalidDate
             ELSE InvalidDate

\* new Date().toISOString().split("T")[0]
ToISODate(date) == IsoDate(date.day)

\* date.setMonth(date.getMonth() - 6): local fields, a day past the end of
\* the month carries into the next one
SetMonthBack6(date, offset) ==
    LET L == LocalDay(date, offset)
        y == IF L.month > 6 THEN L.year ELSE L.year - 1
        m == IF L.month > 6 THEN L.month - 6 ELSE L.month + 6
        D == IF L.date <= DaysInMonth(y, m) THEN Day(y, m, L.date)
             ELSE Day(y, m + 1, L.date - DaysInMonth(y, m))
    IN  FromLocal(D, LocalHour(date, offset), offset)

(***************************************************************************)
(* The conversions of the forms                                            *)
(***************************************************************************)
\* EditPatientForm.formatDateForInput
FormatDateForInput(dateStr, offset) ==
    IF dateStr = <<>> THEN <<>>
    ELSE LET parts == Split(dateStr, "/")
             year == IF Len(parts) = 3 /\ Len(parts[3]) = 2
                     THEN (IF ToNumber(parts[3]) < 50 THEN <<"2", "0">> ELSE <<"1", "9">>)
                          \o parts[3]
                     ELSE Part(parts, 3)
             date == IF Includes(dateStr, "/")
                     THEN NewDate(Part(parts, 1) \o <<"/">> \o Part(parts, 2)
                                    \o <<"/">> \o year, offset)
                     ELSE NewDate(dateStr, offset)
         IN  IF Includes(dateStr, "/") /\ Len(parts) # 3 THEN <<>>
             ELSE IF ~date.valid THEN <<>>
             ELSE LET L == LocalDay(date, offset)
                  IN  NumberToString(L.year) \o <<"-">> \o PadStart2(L.month)
                        \o <<"-">> \o PadStart2(L.date)

\* EditPatientForm.handleSubmit: formatDateForAPI
FormatDateForAPI(dateStr) ==
    IF dateStr = <<>> THEN <<>>
    ELSE LET parts == Split(dateStr, "-")
         IN  Part(parts, 2) \o <<"/">> \o Part(parts, 3) \o <<"/">> \o Part(parts, 1)

\* NewPatientForm.handleSubmit: formattedDate
FormattedDate(dateStr) ==
    IF dateStr = <<>> THEN <<>>
    ELSE LET parts == Split(dateStr, "-")
         IN  Part(parts, 2) \o <<"/">> \o Part(parts, 3) \o <<"/">> \o Part(parts, 1)

\* NewVisitForm.handleSubmit: formatDateForAPI
VisitFormatDateForAPI(dateStr) ==
    IF dateStr = <<>> THEN <<>>
    ELSE LET parts == Split(dateStr, "-")
         IN  Part(parts, 2) \o <<"/">> \o Part(parts, 3) \o <<"/">> \o Part(parts, 1)


(***************************************************************************)
(* Dates in requests.  Each step records the date values it put in the     *)
(* request(s) it made: body members (birthdate, first_visit_date,          *)
(* visit_date) and query parameters (start_date, end_date).                *)
(***************************************************************************)
\* the calendar days a user picks or a patient record holds
Days == {Day(1990, 5, 15), Day(1999, 12, 31), Day(2000, 1, 1), Day(2000, 3, 1)}

\* the instants `new Date()` reads from the clock when a page mounts
Clock ==
    {Instant(D, h) : D \in {Day(2024, 1, 1), Day(2024, 8, 31)}, h \in {0, 12, 22}}

\* e.target.value of an <input type="date">: a picked day, or cleared
DateInputValues == {IsoDate(D) : D \in Days} \cup {<<>>}

\* patient_info.birthdate of GET /patients/{id}
ApiBirthdates == {UsDate(D) : D \in Days} \cup {IsoDate(D) : D \in Days} \cup {<<>>}

NoDateRange == [start |-> <<>>, end |-> <<>>]

NoDateInputs == [birthdate |-> <<>>, firstVisitDate |-> <<>>, visitDate |-> <<>>]

NoDateRequest == [by |-> "none", dates |-> {}]

DateParam(name, value) == [name |-> name, value |-> value]

\* dashboardApi.getMetrics
GetMetricsDates(startDate, endDate) ==
    IF startDate # <<>> /\ endDate # <<>>
    THEN {DateParam("start_date", startDate), DateParam("end_date", endDate)}
    ELSE {}

\* dashboardApi.getHistoricalTrends
GetHistoricalTrendsDates(endDate) ==
    IF endDate # <<>> THEN {DateParam("end_date", endDate)} ELSE {}

\* Dashboard.fetchDashboardData: the trends are requested once the metrics
\* have arrived
FetchDashboardData(range, metricsOk) ==
    [by |-> "dashboard",
     dates |-> GetMetricsDates(range.start, range.end)
                 \cup (IF metricsOk THEN GetHistoricalTrendsDates(range.end) ELSE {})]

\* reportsApi.getComprehensiveSummary / Reports.fetchReportData
FetchReportData(range) ==
    [by |-> "reports",
     dates |-> {DateParam("start_date", range.start), DateParam("end_date", range.end)}]

\* reportsApi.exportReport / Reports.handleExportReport
ExportReportDates(range) ==
    [by |-> "export",
     dates |-> {DateParam("start_date", range.start), DateParam("end_date", range.end)}]

\* useState of dateRange in Dashboard and Reports
InitialDateRange(now, offset) ==
    [start |-> ToISODate(SetMonthBack6(now, offset)), end |-> ToISODate(now)]

DatesIdle ==
    /\ timezoneOffset = 0
    /\ datePage = "none"
    /\ dateRange = NoDateRange
    /\ dateInputs = NoDateInputs
    /\ patientBirthdate = <<>>
    /\ birthdateTouched = FALSE
    /\ dateRequest = NoDateRequest

\* the browser is in one of the time zones
DatesStart ==
    /\ timezoneOffset \in TimeZones
    /\ datePage = "none"
    /\ dateRange = NoDateRange
    /\ dateInputs = NoDateInputs
    /\ patientBirthdate = <<>>
    /\ birthdateTouched = FALSE
    /\ dateRequest = NoDateRequest

NoForm ==
    /\ dateInputs' = NoDateInputs
    /\ patientBirthdate' = <<>>
    /\ birthdateTouched' = FALSE

MountDashboard ==
    \E now \in Clock, metricsOk \in BOOLEAN :
        /\ datePage' = "dashboard"
        /\ dateRange' = InitialDateRange(now, timezoneOffset)
        /\ dateRequest' = FetchDashboardData(dateRange', metricsOk)
        /\ NoForm
        /\ UNCHANGED <<timezoneOffset, notDates>>

\* the onChange of a date input, and the effect on [dateRange] it triggers
DashboardSetDateRange ==
    \E value \in DateInputValues, isStart \in BOOLEAN, metricsOk \in BOOLEAN :
        /\ datePage = "dashboard"
        /\ dateRange' = IF isStart THEN [dateRange EXCEPT !.start = value]
                        ELSE [dateRange EXCEPT !.end = value]
        /\ dateRequest' = FetchDashboardData(dateRange', metricsOk)
        /\ UNCHANGED <<timezoneOffset, datePage, dateInputs, patientBirthdate,
                       birthdateTouched, notDates>>

MountReports ==
    \E now \in Clock :
        /\ datePage' = "reports"
        /\ dateRange' = InitialDateRange(now, timezoneOffset)
        /\ dateRequest' = FetchReportData(dateRange')
        /\ NoForm
        /\ UNCHANGED <<timezoneOffset, notDates>>

ReportsSetDateRange ==
    \E value \in DateInputValues, isStart \in BOOLEAN :
        /\ datePage = "reports"
        /\ dateRange' = IF isStart THEN [dateRange EXCEPT !.start = value]
                        ELSE [dateRange EXCEPT !.end = value]
        /\ dateRequest' = FetchReportData(dateRange')
        /\ UNCHANGED <<timezoneOffset, datePage, dateInputs, patientBirthdate,
                       birthdateTouched, notDates>>

HandleExportReport ==
    /\ datePage = "reports"
    /\ dateRequest' = ExportReportDates(dateRange)
    /\ UNCHANGED <<timezoneOffset, datePage, dateRange, dateInputs, patientBirthdate,
                   birthdateTouched, notDates>>

ShowNewPatientForm ==
    /\ datePage' = "newPatient"
    /\ dateRange' = NoDateRange
    /\ NoForm
    /\ dateRequest' = NoDateRequest
    /\ UNCHANGED <<timezoneOffset, notDates>>

\* EditPatientForm rendered for a patient: defaultValue={formattedBirthdate}
ShowEditPatientForm ==
    \E birthdate \in ApiBirthdates :
        /\ datePage' = "editPatient"
        /\ dateRange' = NoDateRange
        /\ patientBirthdate' = birthdate
        /\ dateInputs' = [NoDateInputs EXCEPT
                            !.birthdate = FormatDateForInput(birthdate, timezoneOffset)]
        /\ birthdateTouched' = FALSE
        /\ dateRequest' = NoDateRequest
        /\ UNCHANGED <<timezoneOffset, notDates>>

ShowNewVisitForm ==
    /\ datePage' = "newVisit"
    /\ dateRange' = NoDateRange
    /\ NoForm
    /\ dateRequest' = NoDateRequest
    /\ UNCHANGED <<timezoneOffset, notDates>>

\* the date inputs each form has
DateFields(page) ==
    CASE page = "newPatient" -> {"birthdate", "firstVisitDate"}
      [] page = "editPatient" -> {"birthdate"}
      [] page = "newVisit" -> {"visitDate"}
      [] OTHER -> {}

\* the user picks a day in, or clears, a date input of the open form
ChangeDateInput ==
    \E field \in DateFields(datePage), value \in DateInputValues :
        /\ dateInputs' = [dateInputs EXCEPT ![field] = value]
        /\ birthdateTouched' = (birthdateTouched \/ datePage = "editPatient")
        /\ dateRequest' = NoDateRequest
        /\ UNCHANGED <<timezoneOffset, datePage, dateRange, patientBirthdate, notDates>>

\* NewPatientForm.handleSubmit; both date inputs are `required`
NewPatientFormSubmit ==
    /\ datePage = "newPatient"
    /\ dateInputs.birthdate # <<>> /\ dateInputs.firstVisitDate # <<>>
    /\ dateRequest' =
          [by |-> "createPatient",
           dates |-> {DateParam("birthdate", FormattedDate(dateInputs.birthdate)),
                      DateParam("first_visit_date",
                                FormattedDate(dateInputs.firstVisitDate))}]
    /\ UNCHANGED <<timezoneOffset, datePage, dateRange, dateInputs, patientBirthdate,
                   birthdateTouched, notDates>>

\* EditPatientForm.handleSubmit; the birth-date input is not `required`
EditPatientFormSubmit ==
    /\ datePage = "editPatient"
    /\ dateRequest' =
          [by |-> "updatePatient",
           dates |-> {DateParam("birthdate", FormatDateForAPI(dateInputs.birthdate))}]
    /\ UNCHANGED <<timezoneOffset, datePage, dateRange, dateInputs, patientBirthdate,
                   birthdateTouched, notDates>>

\* NewVisitForm.handleSubmit; the visit-date input is `required`
NewVisitFormSubmit ==
    /\ datePage = "newVisit"
    /\ dateInputs.visitDate # <<>>
    /\ dateRequest' =
          [by |-> "addPatientVisit",
           dates |-> {DateParam("visit_date", VisitFormatDateForAPI(dateInputs.visitDate))}]
    /\ UNCHANGED <<timezoneOffset, datePage, dateRange, dateInputs, patientBirthdate,
                   birthdateTouched, notDates>>

DatesNext ==
    \/ MountDashboard
    \/ DashboardSetDateRange
    \/ MountReports
    \/ ReportsSetDateRange
    \/ HandleExportReport
    \/ ShowNewPatientForm
    \/ ShowEditPatientForm
    \/ ShowNewVisitForm
    \/ ChangeDateInput
    \/ NewPatientFormSubmit
    \/ EditPatientFormSubmit
    \/ NewVisitFormSubmit

(***************************************************************************)
(* Health goals.  The API holds thirteen flags per patient; each form      *)
(* keeps the display names of the ticked checkboxes in selectedGoals and   *)
(* builds the `goals` object of its request from them.                     *)
(***************************************************************************)
\* Object.keys of the mapping tables, in source order
GoalKeys ==
    <<"increased_fruit_veg", "increased_water", "increased_exercise",
      "cut_tv_viewing", "eat_breakfast", "limit_alcohol", "no_late_eating",
      "more_whole_grains", "less_fried_foods", "low_fat_milk", "lower_salt",
      "annual_checkup", "quit_smoking">>

GoalKeySet == {GoalKeys[i] : i \in 1..Len(GoalKeys)}

\* EditPatientForm: API key -> display name
GOAL_MAPPING ==
    [increased_fruit_veg |-> "INCREASED DAILY FRUIT/ VEGETABLE PORTIONS",
     increased_water     |-> "INCREASE DAILY WATER INTAKE",
     increased_exercise  |-> "INCREASED WEEKLY EXERCISE",
     cut_tv_viewing      |-> "CUT TV VIEWING TO < 2 HOURS/ DAY",
     eat_breakfast       |-> "EAT BREAKFAST DAILY",
     limit_alcohol       |-> "LIMIT DAILY ALCOHOL CONSUMPTION WOMAN =1, MAN=2",
     no_late_eating      |-> "DO NOT EAT AT LEAST 3 HOURS BEFORE GOING TO BED",
     more_whole_grains   |-> "EATS MORE WHOLE WHEAT/ GRAINS DAILY",
     less_fried_foods    |-> "EATS LESS FRIED FOODS OR MEATS",
     low_fat_milk        |-> "DRINKS LOW FAT OR SKIM MILK",
     lower_salt          |-> "LOWERED SALT INTAKE",
     annual_checkup      |-> "RECEIVE AN ANNUAL CHECK-UP",
     quit_smoking        |-> "QUIT SMOKING"]

\* NewPatientForm: display name -> API key
NEW_PATIENT_GOAL_MAPPING ==
    ("INCREASED DAILY FRUIT/ VEGETABLE PORTIONS" :> "increased_fruit_veg")
    @@ ("INCREASE DAILY WATER INTAKE" :> "increased_water")
    @@ ("INCREASED WEEKLY EXERCISE" :> "increased_exercise")
    @@ ("CUT TV VIEWING TO < 2 HOURS/ DAY" :> "cut_tv_viewing")
    @@ ("EAT BREAKFAST DAILY" :> "eat_breakfast")
    @@ ("LIMIT DAILY ALCOHOL CONSUMPTION WOMAN =1, MAN=2" :> "limit_alcohol")
    @@ ("DO NOT EAT AT LEAST 3 HOURS BEFORE GOING TO BED" :> "no_late_eating")
    @@ ("EATS MORE WHOLE WHEAT/ GRAINS DAILY" :> "more_whole_grains")
    @@ ("EATS LESS FRIED FOODS OR MEATS" :> "less_fried_foods")
    @@ ("DRINKS LOW FAT OR SKIM MILK" :> "low_fat_milk")
    @@ ("LOWERED SALT INTAKE" :> "lower_salt")
    @@ ("RECEIVE AN ANNUAL CHECK-UP" :> "annual_checkup")
    @@ ("QUIT SMOKING" :> "quit_smoking")

\* NewVisitForm (the same table in both versions of the form)
GOALS_MAPPING ==
    [increased_fruit_veg |-> "Increase Fruit & Vegetable Intake",
     increased_water     |-> "Increase Water Intake",
     increased_exercise  |-> "Increase Physical Activity",
     cut_tv_viewing      |-> "Reduce Screen Time",
     eat_breakfast       |-> "Eat Breakfast Daily",
     limit_alcohol       |-> "Limit Alcohol Consumption",
     no_late_eating      |-> "Avoid Late Night Eating",
     more_whole_grains   |-> "Eat More Whole Grains",
     less_fried_foods    |-> "Reduce Fried Food Consumption",
     low_fat_milk        |-> "Use Low-Fat Dairy Products",
     lower_salt          |-> "Reduce Salt Intake",
     annual_checkup      |-> "Schedule Annual Check-up",
     quit_smoking        |-> "Quit Smoking"]

\* Object.values(mapping)
Values(mapping) == {mapping[k] : k \in DOMAIN mapping}

\* properties of a goals row that are not goals
NonGoalProperties == {"client_id", "visit_date", "visit_id"}

\* latestGoals: null, or an object of numbers
NullGoals == [isNull |-> TRUE, flags |-> <<>>]

GoalsObject(flags) == [isNull |-> FALSE, flags |-> flags]

\* every map of the thirteen keys to 0 or 1
AllGoalFlags == [GoalKeySet -> {0, 1}]

\* the latestGoals the forms are rendered with: none; a complete row; a row
\* with the non-goal properties, a key missing and a value that is not 0 or 1
LoadedGoals ==
    { NullGoals,
      GoalsObject([k \in GoalKeySet |->
                     IF k \in {"increased_water", "quit_smoking"} THEN 1 ELSE 0]),
      GoalsObject([k \in (GoalKeySet \ {"lower_salt"}) \cup NonGoalProperties |->
                     CASE k = "client_id" -> 7
                       [] k = "visit_id" -> 1
                       [] k = "visit_date" -> 1
                       [] k = "eat_breakfast" -> 1
                       [] k = "annual_checkup" -> 2
                       [] OTHER -> 0]) }

\* the variant that reads the filter the wrong way round (value !== 1)
GetActiveGoalsFromDataInverted(goalsData) ==
    IF goalsData.isNull THEN {}
    ELSE {GOAL_MAPPING[k] : k \in {key \in DOMAIN goalsData.flags :
                                      /\ key \notin NonGoalProperties
                                      /\ goalsData.flags[key] # 1
                                      /\ key \in DOMAIN GOAL_MAPPING}}

\* EditPatientForm.getActiveGoalsFromData
GetActiveGoalsFromData(goalsData) ==
    IF goalsData.isNull THEN {}
    ELSE {GOAL_MAPPING[k] : k \in {key \in DOMAIN goalsData.flags :
                                      /\ key \notin NonGoalProperties
                                      /\ goalsData.flags[key] = 1
                                      /\ key \in DOMAIN GOAL_MAPPING}}

\* NewVisitForm useEffect([latestGoals]): the active goals of a non-null row
ActiveVisitGoals(goalsData) ==
    {GOALS_MAPPING[k] : k \in {key \in DOMAIN goalsData.flags :
                                  /\ key \notin NonGoalProperties
                                  /\ goalsData.flags[key] = 1
                                  /\ key \in DOMAIN GOALS_MAPPING}}

\* Object.entries(mapping).find(([_, value]) => value === goal)?.[0]
FindApiKey(mapping, goal) ==
    LET hits == {i \in 1..Len(GoalKeys) : mapping[GoalKeys[i]] = goal}
    IN  IF hits = {} THEN "" ELSE GoalKeys[Min(hits)]

\* EditPatientForm.handleSubmit without "Initialize all goals to 0"
EditPatientFormGoalsSelectedOnly(selected) ==
    [k \in {FindApiKey(GOAL_MAPPING, goal) : goal \in selected} \ {""} |-> 1]

\* EditPatientForm.handleSubmit: goalsData
EditPatientFormGoals(selected) ==
    LET apiKeys == {FindApiKey(GOAL_MAPPING, goal) : goal \in selected} \ {""}
    IN  [k \in DOMAIN GOAL_MAPPING |-> IF k \in apiKeys THEN 1 ELSE 0]

\* NewPatientForm.handleSubmit: goals
NewPatientFormGoals(selected) ==
    LET apiKeys == {NEW_PATIENT_GOAL_MAPPING[goal] :
                       goal \in selected \cap DOMAIN NEW_PATIENT_GOAL_MAPPING}
    IN  [k \in Values(NEW_PATIENT_GOAL_MAPPING) |-> IF k \in apiKeys THEN 1 ELSE 0]

\* NewVisitForm.handleSubmit: goalsData, when it is built
NewVisitFormGoals(selected) ==
    LET apiKeys == {FindApiKey(GOALS_MAPPING, goal) : goal \in selected} \ {""}
    IN  [k \in DOMAIN GOALS_MAPPING |-> IF k \in apiKeys THEN 1 ELSE 0]

NoGoalsRequest == [by |-> "none", included |-> FALSE, goals |-> <<>>]

\* a request body with a `goals` member
WithGoals(by, goals) == [by |-> by, included |-> TRUE, goals |-> goals]

\* a request body without one
WithoutGoals(by) == [by |-> by, included |-> FALSE, goals |-> <<>>]

GoalsIdle ==
    /\ goalForm = "none"
    /\ latestGoals = NullGoals
    /\ selectedGoals = {}
    /\ initialGoals = {}
    /\ editingGoals = FALSE
    /\ goalsToggled = FALSE
    /\ goalsRequest = NoGoalsRequest

\* NewPatientForm mounted: useState([])
RenderNewPatientForm ==
    /\ goalForm' = "newPatient"
    /\ latestGoals' = NullGoals
    /\ selectedGoals' = {}
    /\ initialGoals' = {}
    /\ editingGoals' = FALSE
    /\ goalsToggled' = FALSE
    /\ goalsRequest' = NoGoalsRequest
    /\ UNCHANGED notGoals

\* EditPatientForm mounted with latestGoals: useEffect([latestGoals])
EditPatientFormRendered(goalsData) ==
    /\ goalForm' = "editPatient"
    /\ latestGoals' = goalsData
    /\ selectedGoals' = GetActiveGoalsFromData(goalsData)
    /\ initialGoals' = {}
    /\ editingGoals' = FALSE
    /\ goalsToggled' = FALSE
    /\ goalsRequest' = NoGoalsRequest
    /\ UNCHANGED notGoals

RenderEditPatientForm == \E goalsData \in LoadedGoals : EditPatientFormRendered(goalsData)

\* NewVisitForm mounted with latestGoals: useEffect([latestGoals]) sets
\* selectedGoals and initialGoals when latestGoals is not null
NewVisitFormRendered(form, goalsData) ==
    /\ goalForm' = form
    /\ latestGoals' = goalsData
    /\ selectedGoals' = IF goalsData.isNull THEN {} ELSE ActiveVisitGoals(goalsData)
    /\ initialGoals' = IF form = "newVisit" THEN selectedGoals' ELSE {}
    /\ editingGoals' = FALSE
    /\ goalsToggled' = FALSE
    /\ goalsRequest' = NoGoalsRequest
    /\ UNCHANGED notGoals

RenderNewVisitForm == \E goalsData \in LoadedGoals : NewVisitFormRendered("newVisit", goalsData)

\* the version of NewVisitForm without the Edit Goals button
RenderLegacyVisitForm ==
    \E goalsData \in LoadedGoals : NewVisitFormRendered("visitLegacy", goalsData)

\* the checkboxes a form shows
GoalCheckboxes(form, editing) ==
    CASE form = "newPatient" -> DOMAIN NEW_PATIENT_GOAL_MAPPING
      [] form = "editPatient" -> Values(GOAL_MAPPING)
      [] form = "newVisit" -> IF editing THEN Values(GOALS_MAPPING) ELSE {}
      [] form = "visitLegacy" -> Values(GOALS_MAPPING)
      [] OTHER -> {}

\* toggleGoal of the three forms
Toggled(prev, goal) == IF goal \in prev THEN prev \ {goal} ELSE prev \cup {goal}

ToggleGoal ==
    \E goal \in GoalCheckboxes(goalForm, editingGoals) :
        /\ selectedGoals' = Toggled(selectedGoals, goal)
        /\ goalsToggled' = TRUE
        /\ goalsRequest' = NoGoalsRequest
        /\ UNCHANGED <<goalForm, latestGoals, initialGoals, editingGoals, notGoals>>

\* NewVisitForm: the Edit Goals button
ToggleEditingGoals ==
    /\ goalForm = "newVisit"
    /\ editingGoals' = ~editingGoals
    /\ goalsRequest' = NoGoalsRequest
    /\ UNCHANGED <<goalForm, latestGoals, selectedGoals, initialGoals, goalsToggled,
                   notGoals>>

SubmitFrame ==
    UNCHANGED <<goalForm, latestGoals, selectedGoals, initialGoals, editingGoals,
                goalsToggled, notGoals>>

\* NewPatientForm.handleSubmit
SubmitNewPatientForm ==
    /\ goalForm = "newPatient"
    /\ goalsRequest' = WithGoals("createPatient", NewPatientFormGoals(selectedGoals))
    /\ SubmitFrame

\* EditPatientForm.handleSubmit
SubmitEditPatientForm ==
    /\ goalForm = "editPatient"
    /\ goalsRequest' = WithGoals("updatePatient", EditPatientFormGoals(selectedGoals))
    /\ SubmitFrame

\* the variant that sends the goals whenever goal editing is switched on
SubmitNewVisitFormWhenEditing ==
    /\ goalForm = "newVisit"
    /\ goalsRequest' =
          IF editingGoals
          THEN WithGoals("addPatientVisit", NewVisitFormGoals(selectedGoals))
          ELSE WithoutGoals("addPatientVisit")
    /\ SubmitFrame

\* NewVisitForm.handleSubmit: goals only when edited and changed
SubmitNewVisitForm ==
    /\ goalForm = "newVisit"
    /\ goalsRequest' =
          IF editingGoals /\ selectedGoals # initialGoals
          THEN WithGoals("addPatientVisit", NewVisitFormGoals(selectedGoals))
          ELSE WithoutGoals("addPatientVisit")
    /\ SubmitFrame

\* the earlier NewVisitForm.handleSubmit: goals always
SubmitLegacyVisitForm ==
    /\ goalForm = "visitLegacy"
    /\ goalsRequest' =
          IF DOMAIN NewVisitFormGoals(selectedGoals) # {}
          THEN WithGoals("addPatientVisit", NewVisitFormGoals(selectedGoals))
          ELSE WithoutGoals("addPatientVisit")
    /\ SubmitFrame

GoalsNext ==
    \/ RenderNewPatientForm
    \/ RenderEditPatientForm
    \/ RenderNewVisitForm
    \/ RenderLegacyVisitForm
    \/ ToggleGoal
    \/ ToggleEditingGoals
    \/ SubmitNewPatientForm
    \/ SubmitEditPatientForm
    \/ SubmitNewVisitForm
    \/ SubmitLegacyVisitForm

\* EditPatientForm on every map of goal flags; the user may tick or untick
\* these two checkboxes
RoundTripCheckboxes == {GOAL_MAPPING["increased_water"], GOAL_MAPPING["quit_smoking"]}

RenderEditPatientFormOnFlags ==
    /\ goalForm = "none"
    /\ \E flags \in AllGoalFlags : EditPatientFormRendered(GoalsObject(flags))

ToggleListedGoal ==
    \E goal \in RoundTripCheckboxes :
        /\ goalForm = "editPatient"
        /\ selectedGoals' = Toggled(selectedGoals, goal)
        /\ goalsToggled' = TRUE
        /\ goalsRequest' = NoGoalsRequest
        /\ UNCHANGED <<goalForm, latestGoals, initialGoals, editingGoals, notGoals>>

RoundTripNext ==
    \/ RenderEditPatientFormOnFlags
    \/ ToggleListedGoal
    \/ SubmitEditPatientForm

(***************************************************************************)
(* Derived metrics.  The backend computes latest_changes (the change       *)
(* between a patient's two most recent visits) and the dashboard's         *)
(* change_percentage (this period against the previous one); PatientDetail *)
(* and Dashboard display them.  Texts are sequences of characters.         *)
(***************************************************************************)
\* the longest visit history
MaxHistory == 3

\* weight of a visit, in lbs
Weights == {0, 190, 200}

\* a visit without a weight
NoWeight == -1

\* counts of a period on the dashboard
Counts == {0, 3, 4}

\* a JSON null where a text is expected
NullText == <<"null">>

\* JavaScript truthiness of a text or null
Truthy(text) == text # NullText /\ text # <<>>

Abs(n) == IF n < 0 THEN -n ELSE n

\* a / b to the nearest integer, b > 0
RoundDiv(a, b) == (2 * a + b) \div (2 * b)

IntText(n) == IF n < 0 THEN <<"-">> \o NumberToString(-n) ELSE NumberToString(n)

\* a change written with its sign
SignedText(n) == IF n > 0 THEN <<"+">> \o NumberToString(n) ELSE IntText(n)

\* a number of tenths written with one decimal
OneDecimalText(tenths) ==
    NumberToString(tenths \div 10) \o <<".">> \o NumberToString(tenths % 10)

\* the percent change of `delta` against `denominator`, with one decimal;
\* not applicable when the denominator is zero
PercentageChangeText(delta, denominator) ==
    IF denominator = 0 THEN NullText
    ELSE (IF delta < 0 THEN <<"-">> ELSE <<>>)
           \o OneDecimalText(RoundDiv(Abs(delta) * 1000, denominator)) \o <<"%">>

\* the two "no data" shapes: latest_changes null, or an object without
\* change fields
NoDataShapes ==
    { [isNull |-> TRUE, weight_change |-> <<>>, weight_percentage_change |-> <<>>,
       divisions |-> 0],
      [isNull |-> FALSE, weight_change |-> <<>>, weight_percentage_change |-> <<>>,
       divisions |-> 0] }

\* latest_changes of a history with at least two visits; a metric missing
\* in either visit is skipped
ChangesBetween(previous, latest) ==
    IF previous = NoWeight \/ latest = NoWeight
    THEN [isNull |-> FALSE, weight_change |-> <<>>, weight_percentage_change |-> <<>>,
          divisions |-> 0]
    ELSE [isNull |-> FALSE,
          weight_change |-> SignedText(latest - previous),
          weight_percentage_change |-> PercentageChangeText(latest - previous, previous),
          divisions |-> IF previous = 0 THEN 0 ELSE 1]

\* the latest_changes the backend may answer for a visit history
LatestChanges(history) ==
    IF Len(history) < 2 THEN NoDataShapes
    ELSE {ChangesBetween(history[Len(history) - 1], history[Len(history)])}

\* a JSON number with two decimals, or null
NullNumber == [isNull |-> TRUE, hundredths |-> 0]

Number(hundredths) == [isNull |-> FALSE, hundredths |-> hundredths]

\* change_percentage of the dashboard metrics
ChangePercentage(current, previous) ==
    IF previous = 0 THEN NullNumber
    ELSE Number(IF current >= previous
                THEN RoundDiv((current - previous) * 10000, previous)
                ELSE -RoundDiv((previous - current) * 10000, previous))

\* PatientDetail: the weight entry of Recent Changes, without the percentage
WeightChangeDisplayWithoutPercentage(latest_changes) ==
    IF Truthy(latest_changes.weight_change)
    THEN [weight |-> latest_changes.weight_change \o <<" ", "l", "b", "s">>,
          percentage |-> <<>>,
          colour |-> "gray"]
    ELSE [weight |-> <<>>, percentage |-> <<>>, colour |-> "none"]

\* PatientDetail: the weight entry of Recent Changes
WeightChangeDisplay(latest_changes) ==
    IF Truthy(latest_changes.weight_change)
    THEN [weight |-> latest_changes.weight_change \o <<" ", "l", "b", "s">>,
          percentage |-> IF Truthy(latest_changes.weight_percentage_change)
                         THEN <<"(">> \o latest_changes.weight_percentage_change \o <<")">>
                         ELSE <<>>,
          colour |-> IF latest_changes.weight_change[1] = "+" THEN "red"
                     ELSE IF latest_changes.weight_change[1] = "-" THEN "green"
                     ELSE "gray"]
    ELSE [weight |-> <<>>, percentage |-> <<>>, colour |-> "none"]

NoRecentChanges ==
    [shown |-> FALSE,
     entry |-> [weight |-> <<>>, percentage |-> <<>>, colour |-> "none"],
     failed |-> FALSE]

\* the section without `patientData.latest_changes &&`: reading a property
\* of null throws
RecentChangesSectionUnguarded(latest_changes) ==
    IF latest_changes.isNull
    THEN [shown |-> FALSE, entry |-> NoRecentChanges.entry, failed |-> TRUE]
    ELSE [shown |-> TRUE, entry |-> WeightChangeDisplay(latest_changes), failed |-> FALSE]

\* PatientDetail: {patientData.latest_changes && ( ... )}
RecentChangesSection(latest_changes) ==
    IF latest_changes.isNull THEN NoRecentChanges
    ELSE [shown |-> TRUE, entry |-> WeightChangeDisplay(latest_changes), failed |-> FALSE]

\* percentage.toFixed(1): rounded to one decimal, the sign of the number kept
ToFixed1(hundredths) ==
    (IF hundredths < 0 THEN <<"-">> ELSE <<>>)
      \o OneDecimalText((Abs(hundredths) + 5) \div 10)

\* Dashboard.formatPercentage without the null test: null is used as 0
FormatPercentageOfNumber(percentage) ==
    IF percentage.hundredths > 0
    THEN <<"+">> \o ToFixed1(percentage.hundredths) \o <<"%">>
    ELSE ToFixed1(percentage.hundredths) \o <<"%">>

\* Dashboard.formatPercentage
FormatPercentage(percentage) ==
    IF percentage.isNull THEN <<"N", "/", "A">>
    ELSE IF percentage.hundredths > 0
    THEN <<"+">> \o ToFixed1(percentage.hundredths) \o <<"%">>
    ELSE ToFixed1(percentage.hundredths) \o <<"%">>

\* Dashboard.getTrend
GetTrend(percentage) ==
    IF percentage.isNull THEN "up"
    ELSE IF percentage.hundredths >= 0 THEN "up" ELSE "down"

NoLatestChanges ==
    [isNull |-> TRUE, weight_change |-> <<>>, weight_percentage_change |-> <<>>,
     divisions |-> 0]

NoMetricsData ==
    [loaded |-> FALSE, count |-> 0, previous |-> 0, change_percentage |-> NullNumber]

NoStatCard == [change |-> <<>>, trend |-> "none"]

MetricsIdle ==
    /\ visitHistory = <<>>
    /\ latestChanges = NoLatestChanges
    /\ recentChanges = NoRecentChanges
    /\ metricsData = NoMetricsData
    /\ statCard = NoStatCard

\* PatientDetail fetches the patient and renders it
PatientDetailShown ==
    \E changes \in LatestChanges(visitHistory') :
        /\ latestChanges' = changes
        /\ recentChanges' = RecentChangesSection(changes)

\* PatientDetail useEffect: GET /patients/{id}
FetchPatientData ==
    /\ UNCHANGED visitHistory
    /\ PatientDetailShown
    /\ UNCHANGED <<metricsData, statCard, notMetrics>>

\* a visit is added and PatientDetail.handleNewVisit fetches the patient again
AddVisitAndRefresh ==
    \E weight \in Weights \cup {NoWeight} :
        /\ Len(visitHistory) < MaxHistory
        /\ visitHistory' = Append(visitHistory, weight)
        /\ PatientDetailShown
        /\ UNCHANGED <<metricsData, statCard, notMetrics>>

\* Dashboard.fetchDashboardData and the Total Visits StatCard
LoadDashboardMetrics ==
    \E current \in Counts, previous \in Counts :
        /\ metricsData' = [loaded |-> TRUE, count |-> current, previous |-> previous,
                           change_percentage |-> ChangePercentage(current, previous)]
        /\ statCard' = [change |-> FormatPercentage(metricsData'.change_percentage),
                        trend |-> GetTrend(metricsData'.change_percentage)]
        /\ UNCHANGED <<visitHistory, latestChanges, recentChanges, notMetrics>>

MetricsNext ==
    \/ FetchPatientData
    \/ AddVisitAndRefresh
    \/ LoadDashboardMetrics

(***************************************************************************)
(* Text: trim, lower-casing and substring search of JavaScript strings     *)
(* (String.prototype.trim, toLowerCase, includes).                         *)
(***************************************************************************)
Whitespace == {" "}

RECURSIVE TrimStart(_)
TrimStart(s) ==
    IF s # <<>> /\ Head(s) \in Whitespace THEN TrimStart(Tail(s)) ELSE s

RECURSIVE TrimEnd(_)
TrimEnd(s) ==
    IF s # <<>> /\ s[Len(s)] \in Whitespace
    THEN TrimEnd(SubSeq(s, 1, Len(s) - 1))
    ELSE s

Trim(s) == TrimEnd(TrimStart(s))

UpperCaseLetters ==
    <<"A", "B", "C", "D", "E", "F", "G", "H", "I", "J", "K", "L", "M",
      "N", "O", "P", "Q", "R", "S", "T", "U", "V", "W", "X", "Y", "Z">>

LowerCaseLetters ==
    <<"a", "b", "c", "d", "e", "f", "g", "h", "i", "j", "k", "l", "m",
      "n", "o", "p", "q", "r", "s", "t", "u", "v", "w", "x", "y", "z">>

ToLowerCaseChar(c) ==
    IF \E i \in 1..Len(UpperCaseLetters) : UpperCaseLetters[i] = c
    THEN LowerCaseLetters[CHOOSE i \in 1..Len(UpperCaseLetters) : UpperCaseLetters[i] = c]
    ELSE c

ToLowerCase(s) == [i \in 1..Len(s) |-> ToLowerCaseChar(s[i])]

\* s.includes(t)
IncludesText(s, t) ==
    \E i \in 0..(Len(s) - Len(t)) : SubSeq(s, i + 1, i + Len(t)) = t

(***************************************************************************)
(* Read requests: SearchProvider (SearchContext.tsx) with the SearchBar,   *)
(* and RecentActivity.  A request is in flight from the call until its     *)
(* promise settles; the responses of several requests arrive in any order. *)
(* What the backend answers is modelled from the specification.            *)
(***************************************************************************)
MaxInFlight == 2

\* the message fetchApi rejects with on a failed response
ApiErrorText(status) ==
    <<"A", "P", "I", " ", "e", "r", "r", "o", "r", ":", " ">> \o NumberToString(status)

\* the message of fetch()'s own rejection (no response at all)
FailedToFetch ==
    <<"F", "a", "i", "l", "e", "d", " ", "t", "o", " ", "f", "e", "t", "c", "h">>

NoMatchingPatients ==
    <<"N", "o", " ", "m", "a", "t", "c", "h", "i", "n", "g", " ",
      "p", "a", "t", "i", "e", "n", "t", "s">>

\* what the user types in the SearchBar
SearchQueries == {<<>>, <<" ">>, <<"a">>, <<"A", "n">>, <<"z">>}

\* the patients the backend searches: client_id and name
Directory == {[client_id |-> 1, name |-> <<"A", "n", "n">>],
              [client_id |-> 2, name |-> <<"A", "l">>]}

\* GET /patients/search?query=: the matching patients
SearchHits(query) ==
    {p.client_id : p \in {d \in Directory :
                             IncludesText(ToLowerCase(d.name), Trim(ToLowerCase(query)))}}

Fulfilled(value) == [ok |-> TRUE, message |-> <<>>, value |-> value]

Rejected(message) == [ok |-> FALSE, message |-> message, value |-> {}]

\* how patientApi.searchPatients(query) can settle
SearchSettlements(query) ==
    {Fulfilled(SearchHits(query)),
     Rejected(ApiErrorText(500)),
     Rejected(FailedToFetch)}
    \cup (IF SearchHits(query) = {} THEN {Rejected(ApiErrorText(404))} ELSE {})

NoTimer == <<"<", "n", "o", " ", "t", "i", "m", "e", "r", ">">>

NoSearchError == "null"

NoSearchRequests == [q \in SearchQueries |-> 0]

NoReply == [to |-> "none", query |-> <<>>, ok |-> TRUE, message |-> <<>>]

InFlight(requests) ==
    LET RECURSIVE Sum(_)
        Sum(S) == IF S = {} THEN 0
                  ELSE LET q == CHOOSE x \in S : TRUE
                       IN requests[q] + Sum(S \ {q})
    IN Sum(DOMAIN requests)

\* the clean-up the effect returned: clearTimeout(timer)
EffectCleanupMissing(timers, cleanup) == timers

EffectCleanup(timers, cleanup) ==
    IF cleanup = NoTimer THEN timers ELSE timers \ {cleanup}

\* handleInputChange / clearSearch: setSearchQuery, then the effect of
\* SearchProvider runs for the new query (after the previous clean-up)
SetSearchQuery ==
    \E query \in SearchQueries :
        /\ query # searchQuery
        /\ searchQuery' = query
        /\ IF Trim(query) = <<>>
           THEN /\ searchResults' = {}
                /\ isSearching' = FALSE
                /\ searchTimers' = EffectCleanup(searchTimers, searchCleanup)
                /\ searchCleanup' = NoTimer
           ELSE /\ isSearching' = TRUE
                /\ searchTimers' = EffectCleanup(searchTimers, searchCleanup) \cup {query}
                /\ searchCleanup' = query
                /\ UNCHANGED searchResults
        /\ UNCHANGED <<searchError, searchRequests, searchReply, activityVars, notReads>>

\* the debounce timer fires: searchPatients(query) up to its await
DebounceTimerFires ==
    \E query \in searchTimers :
        /\ InFlight(searchRequests) < MaxInFlight
        /\ searchTimers' = searchTimers \ {query}
        /\ searchError' = NoSearchError
        /\ searchRequests' = [searchRequests EXCEPT ![query] = @ + 1]
        /\ UNCHANGED <<searchQuery, isSearching, searchResults, searchCleanup,
                       searchReply, activityVars, notReads>>

\* the catch of searchPatients: a 404 means "no results"
IsNoResults(message) ==
    \/ IncludesText(message, <<"4", "0", "4">>)
    \/ IncludesText(message, NoMatchingPatients)

\* searchPatients(query) after its await
SearchPatientsSettles ==
    \E query \in SearchQueries :
        /\ searchRequests[query] > 0
        /\ \E settled \in SearchSettlements(query) :
              /\ searchRequests' = [searchRequests EXCEPT ![query] = @ - 1]
              /\ searchReply' = [to |-> "searchPatients", query |-> query,
                                 ok |-> settled.ok, message |-> settled.message]
              /\ IF settled.ok
                 THEN /\ searchResults' = settled.value
                      /\ UNCHANGED searchError
                 ELSE IF IsNoResults(settled.message)
                 THEN /\ searchResults' = {}
                      /\ UNCHANGED searchError
                 ELSE /\ searchError' = "Failed to search patients"
                      /\ searchResults' = {}
              /\ isSearching' = FALSE
        /\ UNCHANGED <<searchQuery, searchTimers, searchCleanup, activityVars, notReads>>

\* ---- RecentActivity ----
\* the activities GET /dashboard/recent-activity can return
ActivityLists == {<<>>, <<1>>, <<1, 2>>}

\* how dashboardApi.getRecentActivity can settle: with a body that has an
\* `activities` member, with one that has none, or rejected
ActivitiesBody(list) ==
    [ok |-> TRUE, message |-> <<>>, hasActivities |-> TRUE, activities |-> list]

InvalidFormat ==
    [ok |-> TRUE, message |-> <<>>, hasActivities |-> FALSE, activities |-> <<>>]

ActivityRejected(message) ==
    [ok |-> FALSE, message |-> message, hasActivities |-> FALSE, activities |-> <<>>]

ActivitySettlements ==
    {ActivitiesBody(list) : list \in ActivityLists}
    \cup {InvalidFormat, ActivityRejected(ApiErrorText(500)), ActivityRejected(FailedToFetch)}

NoActivityError == <<"n", "u", "l", "l">>

InvalidDataFormat == <<"I", "n", "v", "a", "l", "i", "d", " ", "d", "a", "t", "a">>

\* RecentActivity renders the list and its buttons only past the three early
\* returns (loading, error, no activities)
ActivityListShown ==
    /\ ~activityLoading
    /\ activityError = NoActivityError
    /\ activities # <<>>

\* fetchRecentActivity up to its await
FetchRecentActivity ==
    /\ activityLoading' = TRUE
    /\ activityError' = NoActivityError
    /\ activityRequests' = activityRequests + 1

\* the Refresh button
RefreshActivities ==
    /\ ActivityListShown
    /\ activityRequests < MaxInFlight
    /\ FetchRecentActivity
    /\ UNCHANGED <<activities, clearingActivities, showConfirmation, activityReply,
                   searchVars, notReads>>

\* fetchRecentActivity after its await
FetchRecentActivitySettles ==
    /\ activityRequests > 0
    /\ \E settled \in ActivitySettlements :
          /\ activityRequests' = activityRequests - 1
          /\ activityReply' = [to |-> "getRecentActivity", query |-> <<>>,
                               ok |-> settled.ok, message |-> settled.message]
          /\ IF settled.ok /\ settled.hasActivities
             THEN /\ activities' = settled.activities
                  /\ UNCHANGED activityError
             ELSE IF settled.ok
             THEN /\ activityError' = InvalidDataFormat
                  /\ UNCHANGED activities
             ELSE /\ activityError' = settled.message
                  /\ activities' = <<>>
          /\ activityLoading' = FALSE
    /\ UNCHANGED <<clearingActivities, showConfirmation, searchVars, notReads>>

\* the Clear button
HandleClearActivities ==
    /\ ActivityListShown
    /\ ~clearingActivities
    /\ showConfirmation' = TRUE
    /\ UNCHANGED <<activities, activityLoading, activityError, activityRequests,
                   clearingActivities, activityReply, searchVars, notReads>>

\* Cancel in the confirmation
CancelClearActivities ==
    /\ ActivityListShown
    /\ showConfirmation
    /\ ~clearingActivities
    /\ showConfirmation' = FALSE
    /\ UNCHANGED <<activities, activityLoading, activityError, activityRequests,
                   clearingActivities, activityReply, searchVars, notReads>>

\* confirmClearActivities up to its await
ConfirmClearActivities ==
    /\ ActivityListShown
    /\ showConfirmation
    /\ ~clearingActivities
    /\ clearingActivities' = TRUE
    /\ UNCHANGED <<activities, activityLoading, activityError, activityRequests,
                   showConfirmation, activityReply, searchVars, notReads>>

\* confirmClearActivities after its await
ClearRecentActivitySettles ==
    /\ clearingActivities
    /\ \E settled \in {Fulfilled({}), Rejected(ApiErrorText(500)), Rejected(FailedToFetch)} :
          /\ activityReply' = [to |-> "clearRecentActivity", query |-> <<>>,
                               ok |-> settled.ok, message |-> settled.message]
          /\ IF settled.ok
             THEN /\ activityRequests < MaxInFlight
                  /\ FetchRecentActivity
                  /\ showConfirmation' = FALSE
             ELSE /\ activityError' = settled.message
                  /\ UNCHANGED <<activityLoading, activityRequests, showConfirmation>>
          /\ clearingActivities' = FALSE
    /\ UNCHANGED <<activities, searchVars, notReads>>

ReadsIdle ==
    /\ searchQuery = <<>>
    /\ isSearching = FALSE
    /\ searchResults = {}
    /\ searchError = NoSearchError
    /\ searchTimers = {}
    /\ searchCleanup = NoTimer
    /\ searchRequests = NoSearchRequests
    /\ searchReply = NoReply
    \* RecentActivity is mounted and its effect has called fetchRecentActivity
    /\ activities = <<>>
    /\ activityLoading = TRUE
    /\ activityError = NoActivityError
    /\ activityRequests = 1
    /\ clearingActivities = FALSE
    /\ showConfirmation = FALSE
    /\ activityReply = NoReply

SearchNext ==
    \/ SetSearchQuery
    \/ DebounceTimerFires
    \/ SearchPatientsSettles

ReadsNext ==
    \/ SetSearchQuery
    \/ DebounceTimerFires
    \/ SearchPatientsSettles
    \/ RefreshActivities
    \/ FetchRecentActivitySettles
    \/ HandleClearActivities
    \/ CancelClearActivities
    \/ ConfirmClearActivities
    \/ ClearRecentActivitySettles

(***************************************************************************)
(* PatientRecords: the table of the fetched page, its search box, its      *)
(* sortable columns and its Previous / Next buttons.  The rows carry the   *)
(* columns the filter and the sort read.  Which rows the backend returns   *)
(* for a page is modelled from the specification.                          *)
(***************************************************************************)
\* the characters of the rows and queries, in code-unit order
CodeUnits ==
    <<" ", "(", ")", "-", "/">> \o Digits \o UpperCaseLetters \o LowerCaseLetters

CodeUnit(c) == CHOOSE i \in 1..Len(CodeUnits) : CodeUnits[i] = c

\* a < b for two strings (the comparison of the < operator)
RECURSIVE LessText(_, _)
LessText(a, b) ==
    IF b = <<>> THEN FALSE
    ELSE IF a = <<>> THEN TRUE
    ELSE IF Head(a) = Head(b) THEN LessText(Tail(a), Tail(b))
    ELSE CodeUnit(Head(a)) < CodeUnit(Head(b))

PatientRow(id, name, age, gender, lastVisit, contact) ==
    [id |-> id, name |-> name, age |-> age, gender |-> gender,
     lastVisit |-> lastVisit, contact |-> contact]

\* rows as fetchPatients builds them: contact is `patient.phone || "N/A"`
TableRows ==
    {PatientRow(1, <<"A", "n", "n", " ", "L">>, 42, <<"F">>, <<"2", "4">>, <<"5", "5", "5">>),
     PatientRow(2, <<"B", "o">>, 7, <<"M">>, <<"2", "3">>, <<"N", "/", "A">>),
     PatientRow(3, <<"a", "l">>, 42, <<>>, <<"2", "4">>, <<"4", "-", "7">>)}

\* the pages GET /patients can return: the rows in any order, without repeats
RowLists ==
    {list \in UNION {[1..n -> TableRows] : n \in 0..Cardinality(TableRows)} :
        \A i, j \in DOMAIN list : i # j => list[i] # list[j]}

\* what the user types in the search box of PatientRecords
RecordsQueries ==
    {<<>>, <<" ">>, <<"a">>, <<" ", "A", "N", " ">>, <<"f">>, <<"4">>, <<"4", "2">>,
     <<"n", "/", "a">>, <<"n", " ", "l">>, <<"z">>}

SortFields == {"name", "age", "lastVisit", "id"}

\* the predicate of patients.filter(...) in filterPatients
FilterPredicateCaseSensitive(patient, searchTerm) ==
    \/ IncludesText(patient.name, searchTerm)
    \/ IncludesText(patient.gender, searchTerm)
    \/ IncludesText(patient.contact, searchTerm)
    \/ IncludesText(NumberToString(patient.age), searchTerm)

FilterPredicate(patient, searchTerm) ==
    \/ IncludesText(ToLowerCase(patient.name), searchTerm)
    \/ IncludesText(ToLowerCase(patient.gender), searchTerm)
    \/ IncludesText(ToLowerCase(patient.contact), searchTerm)
    \/ IncludesText(NumberToString(patient.age), searchTerm)

\* Array.prototype.filter
RECURSIVE Filter(_, _)
Filter(list, searchTerm) ==
    IF list = <<>> THEN <<>>
    ELSE IF FilterPredicate(Head(list), searchTerm)
         THEN <<Head(list)>> \o Filter(Tail(list), searchTerm)
         ELSE Filter(Tail(list), searchTerm)

FilterPatients(list, query) ==
    IF Trim(query) = <<>> THEN list
    ELSE Filter(list, Trim(ToLowerCase(query)))

\* a > b and a < b on the values of a column
Greater(a, b, field) ==
    IF field \in {"age", "id"} THEN a[field] > b[field] ELSE LessText(b[field], a[field])

Less(a, b, field) ==
    IF field \in {"age", "id"} THEN a[field] < b[field] ELSE LessText(a[field], b[field])

\* the comparator of filteredAndSortedPatients: a must not come after b
\* when it returns -1 for (a, b) and 1 for (b, a)
ComesBefore(a, b, field, direction) ==
    IF direction = "asc" THEN Greater(b, a, field) ELSE Less(b, a, field)

IsPermutation(list, of) ==
    /\ Len(list) = Len(of)
    /\ \A i \in DOMAIN of : \E j \in DOMAIN list : list[j] = of[i]

\* [...filtered].sort(comparator): rows the comparator orders are in that
\* order; rows it does not order (equal values) may come in either order
Sorted(filtered, field, direction) ==
    {list \in RowLists :
        /\ IsPermutation(list, filtered)
        /\ \A i, j \in DOMAIN list :
              ComesBefore(list[i], list[j], field, direction) => i < j}

NoListRequest(by) == [by |-> by, sent |-> FALSE, page |-> 0, limit |-> 0]

ListRequest(by, page, limit) == [by |-> by, sent |-> TRUE, page |-> page, limit |-> limit]

\* the dependency list of useEffect(fetchPatients)
FetchPatientsDepsWithQuery(pag, query, field, direction) == <<pag.page, pag.limit, query>>

FetchPatientsDeps(pag, query, field, direction) == <<pag.page, pag.limit>>

\* the table (header, rows) is rendered: !loading && !error
TableShown == ~recordsError

\* useMemo(filteredAndSortedPatients) of the render that follows a step
Render ==
    /\ filteredRows' = FilterPatients(patientRows', recordsSearchQuery')
    /\ shownRows' \in Sorted(filteredRows', sortField', sortDirection')

\* how getPatients can settle: rejected, or with a page of rows and the
\* number of pages
NoPage == [ok |-> FALSE, patients |-> <<>>, pages |-> 0]

PatientPages ==
    {NoPage} \cup {[ok |-> TRUE, patients |-> list, pages |-> pages] :
                      list \in RowLists, pages \in 1..2}

\* fetchPatients: getPatients(page, limit), then setPatients / setPagination
\* or setError
FetchPatients(by, pag) ==
    \E data \in PatientPages :
        /\ listRequest' = ListRequest(by, pag.page, pag.limit)
        /\ IF data.ok
           THEN /\ patientRows' = data.patients
                /\ pagination' = [total |-> PageLimit * (data.pages - 1) + 1,
                                  page |-> pag.page, limit |-> pag.limit,
                                  pages |-> data.pages]
                /\ recordsError' = FALSE
           ELSE /\ patientRows' = patientRows
                /\ pagination' = pag
                /\ recordsError' = TRUE

\* a handler set the state to (pag, query, field, direction): the effect runs
\* when its dependencies changed, and the component renders
AfterSetState(by, pag, query, field, direction) ==
    /\ recordsSearchQuery' = query
    /\ sortField' = field
    /\ sortDirection' = direction
    /\ IF FetchPatientsDeps(pag, query, field, direction)
            # FetchPatientsDeps(pagination, recordsSearchQuery, sortField, sortDirection)
       THEN FetchPatients(by, pag)
       ELSE /\ listRequest' = NoListRequest(by)
            /\ pagination' = pag
            /\ UNCHANGED <<patientRows, recordsError>>
    /\ Render

\* PatientRecords is mounted: useState initial values, then the effect (the
\* first thing that happens)
MountPatientRecords ==
    /\ listRequest = NoListRequest("none")
    /\ recordsSearchQuery' = <<>>
    /\ sortField' = "name"
    /\ sortDirection' = "asc"
    /\ patientRows = <<>>
    /\ FetchPatients("mount", InitialPagination)
    /\ Render
    /\ patientToDelete = 0
    /\ UNCHANGED <<patientToDelete, notTable>>

HandleSearch ==
    \E query \in RecordsQueries :
        /\ query # recordsSearchQuery
        /\ AfterSetState("handleSearch", pagination, query, sortField, sortDirection)
        /\ patientToDelete = 0
        /\ UNCHANGED <<patientToDelete, notTable>>

HandleSort ==
    \E field \in SortFields :
        /\ TableShown
        /\ IF sortField = field
           THEN AfterSetState("handleSort", pagination, recordsSearchQuery, sortField,
                              IF sortDirection = "asc" THEN "desc" ELSE "asc")
           ELSE AfterSetState("handleSort", pagination, recordsSearchQuery, field, "asc")
        /\ patientToDelete = 0
        /\ UNCHANGED <<patientToDelete, notTable>>

\* the Previous and Next buttons (rendered below a non-empty table)
PreviousPage ==
    /\ TableShown
    /\ shownRows # <<>>
    /\ ~(pagination.page <= 1)
    /\ AfterSetState("previousPage", [pagination EXCEPT !.page = @ - 1],
                     recordsSearchQuery, sortField, sortDirection)
    /\ patientToDelete = 0
    /\ UNCHANGED <<patientToDelete, notTable>>

NextPage ==
    /\ TableShown
    /\ shownRows # <<>>
    /\ ~(pagination.page >= pagination.pages)
    /\ AfterSetState("nextPage", [pagination EXCEPT !.page = @ + 1],
                     recordsSearchQuery, sortField, sortDirection)
    /\ patientToDelete = 0
    /\ UNCHANGED <<patientToDelete, notTable>>

\* the page handleDeleteConfirm asks for
NewPageAfterDelete ==
    IF Len(shownRows) = 1 /\ pagination.page > 1
        THEN pagination.page - 1
        ELSE pagination.page

\* data.pagination of a resolved getPatients(page, limit)
DataPagination(data, page, limit) ==
    [total |-> PageLimit * (data.pages - 1) + 1, page |-> page, limit |-> limit,
     pages |-> data.pages]

\* the delete button of a rendered row: handleDelete(patient)
HandleDeleteOfRow ==
    /\ TableShown
    /\ patientToDelete = 0
    /\ \E i \in DOMAIN shownRows : patientToDelete' = shownRows[i].id
    /\ listRequest' = NoListRequest("handleDelete")
    /\ UNCHANGED <<patientRows, recordsSearchQuery, sortField, sortDirection,
                   recordsError, filteredRows, shownRows, pagination, notTable>>

\* DeleteConfirmationModal.onClose
CloseDeleteOfRow ==
    /\ patientToDelete # 0
    /\ patientToDelete' = 0
    /\ listRequest' = NoListRequest("onClose")
    /\ UNCHANGED <<patientRows, recordsSearchQuery, sortField, sortDirection,
                   recordsError, filteredRows, shownRows, pagination, notTable>>

\* handleDeleteConfirm after a rejected deletePatient: the toast, the modal
DeleteOfRowRejected ==
    /\ listRequest' = NoListRequest("handleDeleteConfirm")
    /\ UNCHANGED <<patientRows, pagination, recordsError>>

\* handleDeleteConfirm after a resolved deletePatient: getPatients(newPage),
\* setPatients and setPagination; a new pagination.page runs the effect's
\* fetchPatients for that page as well
DeleteOfRowResolved ==
    LET newPage == NewPageAfterDelete
        limit == pagination.limit
        \* the pages the backend can return once the patient is deleted
        pages == {d \in PatientPages :
                     \A i \in DOMAIN d.patients : d.patients[i].id # patientToDelete}
    IN  /\ listRequest' = ListRequest("handleDeleteConfirm", newPage, limit)
        /\ \E data \in pages :
              IF ~data.ok
              THEN UNCHANGED <<patientRows, pagination, recordsError>>
              ELSE IF newPage = pagination.page
              THEN /\ patientRows' = data.patients
                   /\ pagination' = DataPagination(data, newPage, limit)
                   /\ UNCHANGED recordsError
              ELSE \E again \in pages :
                      IF again.ok
                      THEN /\ patientRows' = again.patients
                           /\ pagination' = DataPagination(again, newPage, limit)
                           /\ recordsError' = FALSE
                      ELSE /\ patientRows' = data.patients
                           /\ pagination' = DataPagination(data, newPage, limit)
                           /\ recordsError' = TRUE

\* the confirm button of DeleteConfirmationModal
HandleDeleteConfirmOfRow ==
    /\ patientToDelete # 0
    /\ patientToDelete' = 0
    /\ DeleteOfRowRejected \/ DeleteOfRowResolved
    /\ UNCHANGED <<recordsSearchQuery, sortField, sortDirection>>
    /\ Render
    /\ UNCHANGED notTable

TableIdle ==
    /\ patientRows = <<>>
    /\ recordsSearchQuery = <<>>
    /\ sortField = "name"
    /\ sortDirection = "asc"
    /\ recordsError = FALSE
    /\ listRequest = NoListRequest("none")
    /\ filteredRows = <<>>
    /\ shownRows = <<>>
    /\ patientToDelete = 0

TableNext ==
    \/ MountPatientRecords
    \/ HandleSearch
    \/ HandleSort
    \/ PreviousPage
    \/ NextPage

\* the table with its delete buttons; the order of the rows (handleSort) has
\* no part in handleDeleteConfirm, which reads only their number
DeleteNext ==
    \/ MountPatientRecords
    \/ HandleSearch
    \/ PreviousPage
    \/ NextPage
    \/ HandleDeleteOfRow
    \/ CloseDeleteOfRow
    \/ HandleDeleteConfirmOfRow

(***************************************************************************)
(* The static add-client form (home.js): the fields the submit handler     *)
(* reads, its checks, and the request it sends.                            *)
(***************************************************************************)
\* what the user can have typed in a date field
HomeDateTexts ==
    {<<>>,
     <<"0", "1", "/", "1", "5", "/", "2", "0", "0", "0">>,
     <<"1", "2", "/", "3", "1", "/", "1", "9", "9", "9">>,
     <<"0", "2", "/", "3", "0", "/", "2", "0", "0", "0">>,
     <<"1", "3", "/", "0", "1", "/", "2", "0", "0", "0">>,
     <<"0", "0", "/", "1", "0", "/", "2", "0", "0", "0">>,
     <<"0", "1", "/", "0", "0", "/", "2", "0", "0", "0">>,
     <<"0", "1", "/", "3", "2", "/", "2", "0", "0", "0">>,
     <<"1", "/", "5", "/", "2", "0", "0", "0">>,
     <<"0", "1", "/", "1", "5", "/", "2", "0", "0">>,
     <<"0", "1", "/", "1", "5", "/", "2", "0", "0", "0", "0">>,
     <<"2", "0", "0", "0", "-", "0", "1", "-", "1", "5">>,
     <<"a", "b", "/", "c", "d", "/", "e", "f", "g", "h">>}

HomeTexts == {<<>>, <<"A">>}

HomeAges == {<<>>, <<"0">>, <<"4", "2">>}

HomeFields ==
    [first_name : HomeTexts, last_name : HomeTexts, age : HomeAges,
     birthdate : HomeDateTexts, first_visit_date : HomeDateTexts]

EmptyClientForm ==
    [first_name |-> <<>>, last_name |-> <<>>, age |-> <<>>,
     birthdate |-> <<>>, first_visit_date |-> <<>>]

CharIn(c, from, to) == IsDigit(c) /\ DigitValue(c) >= from /\ DigitValue(c) <= to

\* /^(0[1-9]|1[0-2])\/([0-2][0-9]|3[01])\/\d{4}$/.test(text)
DateRegexTest(text) ==
    /\ Len(text) = 10
    /\ \/ text[1] = "0" /\ CharIn(text[2], 1, 9)
       \/ text[1] = "1" /\ CharIn(text[2], 0, 2)
    /\ text[3] = "/"
    /\ \/ CharIn(text[4], 0, 2) /\ CharIn(text[5], 0, 9)
       \/ text[4] = "3" /\ CharIn(text[5], 0, 1)
    /\ text[6] = "/"
    /\ \A i \in 7..10 : IsDigit(text[i])

NoClientRequest == [submitted |-> FALSE, sent |-> FALSE]

\* the user edits one field of the form (any alert has been dismissed)
TypeClientField ==
    \E field \in DOMAIN EmptyClientForm :
        \E formData \in {f \in HomeFields :
                            \A other \in DOMAIN f \ {field} : f[other] = clientForm[other]} :
            /\ formData # clientForm
            /\ clientForm' = formData
            /\ clientAlert' = "none"
            /\ clientRequest' = NoClientRequest
            /\ UNCHANGED notHome

\* the submit handler of clientForm
SubmitClientForm ==
    LET formData == clientForm IN
    /\ IF \/ formData.first_name = <<>>
          \/ formData.last_name = <<>>
          \/ formData.age = <<>>
          \/ formData.birthdate = <<>>
          \/ formData.first_visit_date = <<>>
       THEN /\ clientAlert' = "Please fill in all required fields!"
            /\ clientRequest' = [submitted |-> TRUE, sent |-> FALSE]
       ELSE IF ~DateRegexTest(formData.birthdate)
       THEN /\ clientAlert' = "Please enter a valid birthdate in MM/DD/YYYY format"
            /\ clientRequest' = [submitted |-> TRUE, sent |-> FALSE]
       ELSE IF ~DateRegexTest(formData.first_visit_date)
       THEN /\ clientAlert' = "Please enter a valid first visit date in MM/DD/YYYY format"
            /\ clientRequest' = [submitted |-> TRUE, sent |-> FALSE]
       ELSE /\ clientRequest' = [submitted |-> TRUE, sent |-> TRUE]
            /\ \E answer \in {"profile", "no client_id", "failed"} :
                  clientAlert' =
                      CASE answer = "profile" -> "none"
                        [] answer = "no client_id" ->
                              "Client created, but unable to retrieve the profile ID."
                        [] OTHER -> "A server error occurred. Please try again."
    /\ UNCHANGED <<clientForm, notHome>>

HomeIdle ==
    /\ clientForm = EmptyClientForm
    /\ clientAlert = "none"
    /\ clientRequest = NoClientRequest

HomeNext ==
    \/ TypeClientField
    \/ SubmitClientForm

(***************************************************************************)
(* PatientRecords with its awaits.  Every handler is split at each await:  *)
(* the part before it is one step, and what follows runs in a later step,  *)
(* when the request settles.  The three modal forms are fixed full-screen  *)
(* overlays of the same z-index, so of those that are open the last in the *)
(* document (NewPatientForm, EditPatientForm, DeleteConfirmationModal)     *)
(* takes the clicks.                                                       *)
(***************************************************************************)
\* the client ids the backend can hold
RecordIds == 1..3

NoDeleteSent(by) == [by |-> by, sent |-> FALSE, target |-> 0, clicked |-> 0]

\* the requests PatientRecords is awaiting
RecordsInFlight ==
    (IF mountFetch THEN 1 ELSE 0) + listFetches
        + Cardinality(editFetches) + Cardinality(deleteCalls)

\* {selectedPatient && <EditPatientForm isOpen={isEditFormOpen} .../>}
EditFormShown == editFormOpen /\ chosenPatient # 0

\* the table and its row buttons are rendered ({!loading && !error && ...})
\* and no overlay covers them
RowButtonsClickable ==
    /\ ~loading /\ ~loadError
    /\ ~deleteModalOpen /\ ~EditFormShown /\ ~newPatientFormOpen

\* the effect's fetchPatients after its await
FetchPatientsSettles ==
    /\ mountFetch
    /\ mountFetch' = FALSE
    /\ \E ok \in BOOLEAN :
          IF ok THEN /\ listedPatients' = storedPatients
                     /\ loadError' = FALSE
          ELSE /\ loadError' = TRUE
               /\ UNCHANGED listedPatients
    /\ loading' = FALSE
    /\ deleteSent' = NoDeleteSent("fetchPatients")
    /\ UNCHANGED <<storedPatients, chosenPatient, deleteModalOpen, editFormOpen,
                   newPatientFormOpen, editFetches, listFetches, deleteCalls,
                   deleteClicked, notAsync>>

\* handleEditClick(patient) up to its await
HandleEditClickAwaits ==
    /\ RowButtonsClickable
    /\ RecordsInFlight < MaxInFlight
    /\ \E patient \in listedPatients \ editFetches :
          editFetches' = editFetches \cup {patient}
    /\ loading' = TRUE
    /\ deleteSent' = NoDeleteSent("handleEditClick")
    /\ UNCHANGED <<storedPatients, listedPatients, loadError, chosenPatient,
                   deleteModalOpen, editFormOpen, newPatientFormOpen, mountFetch,
                   listFetches, deleteCalls, deleteClicked, notAsync>>

\* handleEditClick(patient) after its await
HandleEditClickResumes ==
    /\ \E patient \in editFetches :
          /\ editFetches' = editFetches \ {patient}
          /\ \E up \in BOOLEAN :
                IF up /\ patient \in storedPatients
                THEN /\ chosenPatient' = patient
                     /\ editFormOpen' = TRUE
                ELSE UNCHANGED <<chosenPatient, editFormOpen>>
    /\ loading' = FALSE
    /\ deleteSent' = NoDeleteSent("handleEditClick")
    /\ UNCHANGED <<storedPatients, listedPatients, loadError, deleteModalOpen,
                   newPatientFormOpen, mountFetch, listFetches, deleteCalls,
                   deleteClicked, notAsync>>

\* EditPatientForm's onClose
CloseEditPatientForm ==
    /\ EditFormShown /\ ~deleteModalOpen
    /\ editFormOpen' = FALSE
    /\ deleteSent' = NoDeleteSent("onClose")
    /\ UNCHANGED <<storedPatients, listedPatients, loading, loadError,
                   chosenPatient, deleteModalOpen, newPatientFormOpen, mountFetch,
                   editFetches, listFetches, deleteCalls, deleteClicked, notAsync>>

\* the Add New Patient button, which is rendered whatever `loading` is
AddNewPatient ==
    /\ ~deleteModalOpen /\ ~EditFormShown /\ ~newPatientFormOpen
    /\ newPatientFormOpen' = TRUE
    /\ deleteSent' = NoDeleteSent("addNewPatient")
    /\ UNCHANGED <<storedPatients, listedPatients, loading, loadError,
                   chosenPatient, deleteModalOpen, editFormOpen, mountFetch,
                   editFetches, listFetches, deleteCalls, deleteClicked, notAsync>>

\* NewPatientForm created the patient and called onSubmit:
\* handleNewPatientSubmit up to its await
HandleNewPatientSubmitAwaits ==
    /\ newPatientFormOpen /\ ~deleteModalOpen /\ ~EditFormShown
    /\ RecordsInFlight < MaxInFlight
    /\ RecordIds \ storedPatients # {}
    /\ storedPatients' = storedPatients \cup {Min(RecordIds \ storedPatients)}
    /\ newPatientFormOpen' = FALSE
    /\ loading' = TRUE
    /\ listFetches' = listFetches + 1
    /\ deleteSent' = NoDeleteSent("handleNewPatientSubmit")
    /\ UNCHANGED <<listedPatients, loadError, chosenPatient, deleteModalOpen,
                   editFormOpen, mountFetch, editFetches, deleteCalls,
                   deleteClicked, notAsync>>

\* handleNewPatientSubmit / handleDeleteConfirm after the await of getPatients
RefetchSettles ==
    /\ listFetches > 0
    /\ listFetches' = listFetches - 1
    /\ \E ok \in BOOLEAN :
          listedPatients' = IF ok THEN storedPatients ELSE listedPatients
    /\ loading' = FALSE
    /\ deleteSent' = NoDeleteSent("getPatients")
    /\ UNCHANGED <<storedPatients, loadError, chosenPatient, deleteModalOpen,
                   editFormOpen, newPatientFormOpen, mountFetch, editFetches,
                   deleteCalls, deleteClicked, notAsync>>

\* handleDelete(patient): the Delete button of a row
HandleDeleteClicked ==
    /\ RowButtonsClickable
    /\ \E patient \in listedPatients :
          /\ chosenPatient' = patient
          /\ deleteClicked' = patient
    /\ deleteModalOpen' = TRUE
    /\ deleteSent' = NoDeleteSent("handleDelete")
    /\ UNCHANGED <<storedPatients, listedPatients, loading, loadError,
                   editFormOpen, newPatientFormOpen, mountFetch, editFetches,
                   listFetches, deleteCalls, notAsync>>

\* DeleteConfirmationModal's Cancel and X buttons: onClose
CancelDelete ==
    /\ deleteModalOpen
    /\ deleteModalOpen' = FALSE
    /\ deleteClicked' = 0
    /\ deleteSent' = NoDeleteSent("cancel")
    /\ UNCHANGED <<storedPatients, listedPatients, loading, loadError,
                   chosenPatient, editFormOpen, newPatientFormOpen, mountFetch,
                   editFetches, listFetches, deleteCalls, notAsync>>

\* DeleteConfirmationModal's Delete button: onConfirm(); onClose(), that is
\* handleDeleteConfirm up to its await, then the modal closes
HandleDeleteConfirmAwaits ==
    /\ deleteModalOpen
    /\ RecordsInFlight < MaxInFlight
    /\ IF chosenPatient = 0
       THEN /\ deleteSent' = NoDeleteSent("handleDeleteConfirm")
            /\ UNCHANGED deleteCalls
       ELSE /\ deleteCalls' = deleteCalls \cup {chosenPatient}
            /\ deleteSent' = [by |-> "handleDeleteConfirm", sent |-> TRUE,
                              target |-> chosenPatient, clicked |-> deleteClicked]
    /\ deleteModalOpen' = FALSE
    /\ deleteClicked' = 0
    /\ UNCHANGED <<storedPatients, listedPatients, loading, loadError,
                   chosenPatient, editFormOpen, newPatientFormOpen, mountFetch,
                   editFetches, listFetches, notAsync>>

\* handleDeleteConfirm after the await of deletePatient, up to the await of
\* getPatients
HandleDeleteConfirmResumes ==
    /\ \E target \in deleteCalls :
          /\ deleteCalls' = deleteCalls \ {target}
          /\ \E up \in BOOLEAN :
                IF up /\ target \in storedPatients
                THEN /\ storedPatients' = storedPatients \ {target}
                     /\ loading' = TRUE
                     /\ listFetches' = listFetches + 1
                ELSE UNCHANGED <<storedPatients, loading, listFetches>>
    /\ deleteModalOpen' = FALSE
    /\ deleteClicked' = IF deleteModalOpen THEN 0 ELSE deleteClicked
    /\ deleteSent' = NoDeleteSent("deletePatient")
    /\ UNCHANGED <<listedPatients, loadError, chosenPatient, editFormOpen,
                   newPatientFormOpen, mountFetch, editFetches, notAsync>>

\* PatientRecords is mounted and its effect has called fetchPatients
AsyncIdle ==
    /\ storedPatients = {1, 2}
    /\ listedPatients = {}
    /\ loading = TRUE
    /\ loadError = FALSE
    /\ chosenPatient = 0
    /\ deleteModalOpen = FALSE
    /\ editFormOpen = FALSE
    /\ newPatientFormOpen = FALSE
    /\ mountFetch = TRUE
    /\ editFetches = {}
    /\ listFetches = 0
    /\ deleteCalls = {}
    /\ deleteClicked = 0
    /\ deleteSent = NoDeleteSent("none")

AsyncNext ==
    \/ FetchPatientsSettles
    \/ HandleEditClickAwaits
    \/ HandleEditClickResumes
    \/ CloseEditPatientForm
    \/ AddNewPatient
    \/ HandleNewPatientSubmitAwaits
    \/ RefetchSettles
    \/ HandleDeleteClicked
    \/ CancelDelete
    \/ HandleDeleteConfirmAwaits
    \/ HandleDeleteConfirmResumes

(***************************************************************************)
(* EditPatientForm in PatientDetail, with the awaits of its submit.  The   *)
(* form edits one field here, the age.                                     *)
(***************************************************************************)
\* the ages the user can enter
EditAges == {41, 42}

NoUpdateCalls == [age \in EditAges |-> 0]

NoSaveSent(by) == [by |-> by, sent |-> FALSE]

UpdatesInFlight == InFlight(updateCalls)

DetailInFlight ==
    UpdatesInFlight + refetchCalls + (IF detailMount THEN 1 ELSE 0)

\* PatientDetail renders the page, and with it EditPatientForm, only past
\* its early returns (loading, error || !patientData)
DetailPageRendered == ~detailLoading /\ ~detailError /\ shownAge # 0

EditFormRendered == DetailPageRendered /\ detailFormOpen

\* EditPatientForm.loading when handleSubmit returns: setLoading(true), then
\* onSubmit(data) is called without await, so its promise is dropped and
\* the finally block runs setLoading(false) in the same turn
LoadingAfterHandleSubmit == FALSE

\* the effect's fetchPatientData after its await
FetchPatientDataSettles ==
    /\ detailMount
    /\ detailMount' = FALSE
    /\ \E ok \in BOOLEAN :
          IF ok THEN /\ shownAge' = storedAge
                     /\ detailError' = FALSE
          ELSE /\ detailError' = TRUE
               /\ UNCHANGED shownAge
    /\ detailLoading' = FALSE
    /\ saveSent' = NoSaveSent("fetchPatientData")
    /\ UNCHANGED <<storedAge, detailFormOpen, formLoading, updateCalls,
                   refetchCalls, detailToast, notSave>>

\* the Edit Patient button
OpenEditPatientForm ==
    /\ DetailPageRendered /\ ~detailFormOpen
    /\ detailFormOpen' = TRUE
    /\ saveSent' = NoSaveSent("open")
    /\ UNCHANGED <<storedAge, shownAge, detailLoading, detailError, detailMount,
                   formLoading, updateCalls, refetchCalls, detailToast, notSave>>

\* the form's Cancel button (disabled={loading}): onClose
CancelEditPatientForm ==
    /\ EditFormRendered /\ ~formLoading
    /\ detailFormOpen' = FALSE
    /\ saveSent' = NoSaveSent("onClose")
    /\ UNCHANGED <<storedAge, shownAge, detailLoading, detailError, detailMount,
                   formLoading, updateCalls, refetchCalls, detailToast, notSave>>

\* the Save Changes button (disabled={loading}): EditPatientForm.handleSubmit,
\* which runs handleEditPatient(data) up to its await of updatePatient
HandleSubmitEditPatient ==
    /\ EditFormRendered /\ ~formLoading
    /\ DetailInFlight < MaxInFlight
    /\ \E age \in EditAges :
          updateCalls' = [updateCalls EXCEPT ![age] = @ + 1]
    /\ formLoading' = LoadingAfterHandleSubmit
    /\ saveSent' = [by |-> "handleSubmit", sent |-> TRUE]
    /\ UNCHANGED <<storedAge, shownAge, detailLoading, detailError, detailMount,
                   detailFormOpen, refetchCalls, detailToast, notSave>>

\* handleEditPatient after the await of updatePatient, up to the await of
\* getPatientById
HandleEditPatientResumes ==
    /\ \E age \in EditAges :
          /\ updateCalls[age] > 0
          /\ updateCalls' = [updateCalls EXCEPT ![age] = @ - 1]
          /\ \E ok \in BOOLEAN :
                IF ok
                THEN /\ storedAge' = age
                     /\ detailFormOpen' = FALSE
                     /\ detailToast' = "success"
                     /\ detailLoading' = TRUE
                     /\ refetchCalls' = refetchCalls + 1
                ELSE /\ detailToast' = "error"
                     /\ UNCHANGED <<storedAge, detailFormOpen, detailLoading,
                                    refetchCalls>>
    /\ saveSent' = NoSaveSent("handleEditPatient")
    /\ UNCHANGED <<shownAge, detailError, detailMount, formLoading, notSave>>

\* handleEditPatient after the await of getPatientById
HandleEditPatientRefetched ==
    /\ refetchCalls > 0
    /\ refetchCalls' = refetchCalls - 1
    /\ \E ok \in BOOLEAN :
          shownAge' = IF ok THEN storedAge ELSE shownAge
    /\ detailLoading' = FALSE
    /\ saveSent' = NoSaveSent("handleEditPatient")
    /\ UNCHANGED <<storedAge, detailError, detailMount, detailFormOpen,
                   formLoading, updateCalls, detailToast, notSave>>

\* PatientDetail is mounted and its effect has called fetchPatientData
SaveIdle ==
    /\ storedAge = 40
    /\ shownAge = 0
    /\ detailLoading = TRUE
    /\ detailError = FALSE
    /\ detailMount = TRUE
    /\ detailFormOpen = FALSE
    /\ formLoading = FALSE
    /\ updateCalls = NoUpdateCalls
    /\ refetchCalls = 0
    /\ detailToast = "none"
    /\ saveSent = NoSaveSent("none")

SaveNext ==
    \/ FetchPatientDataSettles
    \/ OpenEditPatientForm
    \/ CancelEditPatientForm
    \/ HandleSubmitEditPatient
    \/ HandleEditPatientResumes
    \/ HandleEditPatientRefetched

(***************************************************************************)
(* FinancialReports and its CreateReportModal.  The modal is always        *)
(* mounted (it returns null while closed), so its formData outlives the    *)
(* closing of the modal.  A report is modelled by its year.                *)
(***************************************************************************)
\* new Date().getFullYear()
CurrentYear == 2026

\* Array.from({ length: 5 }, (_, i) => currentYear - i)
YearsOffered == 5

MaxReports == 3

OfferedYears == {CurrentYear - i : i \in 0..(YearsOffered - 1)}

NoReports == [year \in OfferedYears |-> 0]

\* reports.map((r) => r.year)
ExistingYears(list) == {year \in OfferedYears : list[year] > 0}

\* the options of the year <select>
AvailableYears(existingYears) == OfferedYears \ existingYears

Max(S) == CHOOSE x \in S : \A y \in S : x >= y

\* the option the browser shows as selected: the one whose value is
\* formData.year, or the first option when no option has that value
SelectedOption(existingYears) ==
    IF formDataYear \in AvailableYears(existingYears)
    THEN formDataYear
    ELSE Max(AvailableYears(existingYears))

\* the Create New Report button
OpenCreateReportModal ==
    /\ ~isModalOpen
    /\ isModalOpen' = TRUE
    /\ reportSubmitted' = FALSE
    /\ UNCHANGED <<reports, formDataYear, modalIsLoading, yearFetches,
                   financeToast, notFinance>>

\* the modal's X and Cancel buttons: onClose
CloseCreateReportModal ==
    /\ isModalOpen
    /\ isModalOpen' = FALSE
    /\ reportSubmitted' = FALSE
    /\ UNCHANGED <<reports, formDataYear, modalIsLoading, yearFetches,
                   financeToast, notFinance>>

\* handleYearChange: the user picks another option; fetchYearData up to its
\* await
HandleYearChange ==
    /\ isModalOpen
    /\ yearFetches < MaxInFlight
    /\ \E year \in AvailableYears(ExistingYears(reports)) :
          /\ year # SelectedOption(ExistingYears(reports))
          /\ formDataYear' = year
    /\ modalIsLoading' = TRUE
    /\ yearFetches' = yearFetches + 1
    /\ reportSubmitted' = FALSE
    /\ UNCHANGED <<reports, isModalOpen, financeToast, notFinance>>

\* fetchYearData after its await: finally setIsLoading(false)
FetchYearDataSettles ==
    /\ yearFetches > 0
    /\ yearFetches' = yearFetches - 1
    /\ modalIsLoading' = FALSE
    /\ reportSubmitted' = FALSE
    /\ UNCHANGED <<reports, isModalOpen, formDataYear, financeToast, notFinance>>

\* the Create Report button (disabled={isLoading}; the <select required> has
\* a value as long as it has an option): CreateReportModal.handleSubmit,
\* then FinancialReports.handleCreateReport
HandleCreateReport ==
    /\ isModalOpen /\ ~modalIsLoading
    /\ AvailableYears(ExistingYears(reports)) # {}
    /\ InFlight(reports) < MaxReports
    /\ reports' = [reports EXCEPT ![formDataYear] = @ + 1]
    /\ isModalOpen' = FALSE
    /\ financeToast' = "success"
    /\ reportSubmitted' = TRUE
    /\ UNCHANGED <<formDataYear, modalIsLoading, yearFetches, notFinance>>

\* the toast's onClose
CloseFinanceToast ==
    /\ financeToast # "none"
    /\ financeToast' = "none"
    /\ reportSubmitted' = FALSE
    /\ UNCHANGED <<reports, isModalOpen, formDataYear, modalIsLoading,
                   yearFetches, notFinance>>

\* FinancialReports is mounted: no reports, the modal closed with
\* formData.year the current year
FinanceIdle ==
    /\ reports = NoReports
    /\ isModalOpen = FALSE
    /\ formDataYear = CurrentYear
    /\ modalIsLoading = FALSE
    /\ yearFetches = 0
    /\ financeToast = "none"
    /\ reportSubmitted = FALSE

FinanceNext ==
    \/ OpenCreateReportModal
    \/ CloseCreateReportModal
    \/ HandleYearChange
    \/ FetchYearDataSettles
    \/ HandleCreateReport
    \/ CloseFinanceToast

(***************************************************************************)
(* NewVisitForm across closing and reopening.  PatientDetail renders the   *)
(* form with isOpen = isNewVisitFormOpen; the form returns null while      *)
(* closed but stays mounted, so its state outlives the closing.            *)
(***************************************************************************)
\* PatientDetail has loaded a patient and mounts NewVisitForm, closed
MountNewVisitForm ==
    /\ goalForm = "none"
    /\ RenderNewVisitForm

\* the Add Visit button: setIsNewVisitFormOpen(true)
OpenMountedVisitForm ==
    /\ goalForm = "newVisit" /\ ~visitFormIsOpen
    /\ visitFormIsOpen' = TRUE
    /\ goalsRequest' = NoGoalsRequest
    /\ UNCHANGED <<goalForm, latestGoals, selectedGoals, initialGoals,
                   editingGoals, goalsToggled, notVisitForm>>

\* the form's X and Cancel buttons: onClose, then useEffect([isOpen]) runs
\* setEditingGoals(false)
CloseMountedVisitForm ==
    /\ goalForm = "newVisit" /\ visitFormIsOpen
    /\ visitFormIsOpen' = FALSE
    /\ editingGoals' = FALSE
    /\ goalsRequest' = NoGoalsRequest
    /\ UNCHANGED <<goalForm, latestGoals, selectedGoals, initialGoals,
                   goalsToggled, notVisitForm>>

ToggleGoalInOpenForm == visitFormIsOpen /\ goalForm = "newVisit" /\ ToggleGoal

ToggleEditingInOpenForm == visitFormIsOpen /\ ToggleEditingGoals

SubmitOpenVisitForm == visitFormIsOpen /\ SubmitNewVisitForm

VisitFormIdle == visitFormIsOpen = FALSE

VisitFormNext ==
    \/ MountNewVisitForm
    \/ OpenMountedVisitForm
    \/ CloseMountedVisitForm
    \/ ToggleGoalInOpenForm
    \/ ToggleEditingInOpenForm
    \/ SubmitOpenVisitForm

(***************************************************************************)
(* Dashboard and Reports: the effect on [dateRange] and the order in which *)
(* its fetches settle.  A date is a day number; a response is identified   *)
(* by the dates it was asked for.                                          *)
(***************************************************************************)
StartDates == {1, 2}

EndDates == {3, 4}

DateRanges == [start : StartDates, end : EndDates]

InitialRange == [start |-> 1, end |-> 3]

NoData == [start |-> 0, end |-> 0]

\* setDateRange((prev) => ({...prev, start})) or ({...prev, end})
OneDateChanged(prev, next) ==
    /\ next # prev
    /\ next.start = prev.start \/ next.end = prev.end

\* a date input of Dashboard (rendered whatever `loading` is): setDateRange,
\* then the effect calls fetchDashboardData, which runs up to its first await
DashboardDateChanged ==
    /\ Cardinality(dashboardFetches) < MaxInFlight
    /\ \E next \in DateRanges :
          /\ OneDateChanged(dashboardRange, next)
          /\ \A f \in dashboardFetches : f.range # next
          /\ dashboardRange' = next
          /\ dashboardFetches' =
                dashboardFetches \cup {[range |-> next, await |-> "getMetrics"]}
    /\ dashboardLoading' = TRUE
    /\ dashboardError' = FALSE
    /\ UNCHANGED <<dashboardMetrics, dashboardTrends, reportsRange,
                   reportsLoading, reportsError, reportData, reportsFetches,
                   notRanges>>

\* fetchDashboardData after the await of getMetrics, up to the await of
\* getHistoricalTrends
DashboardMetricsSettle ==
    /\ \E f \in dashboardFetches, ok \in BOOLEAN :
          /\ f.await = "getMetrics"
          /\ IF ok
             THEN /\ dashboardMetrics' = f.range
                  /\ dashboardFetches' =
                        (dashboardFetches \ {f})
                            \cup {[range |-> f.range, await |-> "getHistoricalTrends"]}
                  /\ UNCHANGED <<dashboardError, dashboardLoading>>
             ELSE /\ dashboardError' = TRUE
                  /\ dashboardLoading' = FALSE
                  /\ dashboardFetches' = dashboardFetches \ {f}
                  /\ UNCHANGED dashboardMetrics
    /\ UNCHANGED <<dashboardRange, dashboardTrends, reportsRange, reportsLoading,
                   reportsError, reportData, reportsFetches, notRanges>>

\* fetchDashboardData after the await of getHistoricalTrends
DashboardTrendsSettle ==
    /\ \E f \in dashboardFetches, ok \in BOOLEAN :
          /\ f.await = "getHistoricalTrends"
          /\ dashboardFetches' = dashboardFetches \ {f}
          /\ IF ok
             THEN /\ dashboardTrends' = f.range.end
                  /\ UNCHANGED dashboardError
             ELSE /\ dashboardError' = TRUE
                  /\ UNCHANGED dashboardTrends
    /\ dashboardLoading' = FALSE
    /\ UNCHANGED <<dashboardRange, dashboardMetrics, reportsRange, reportsLoading,
                   reportsError, reportData, reportsFetches, notRanges>>

\* Reports renders its date inputs only past `if (loading)` and `if (error)`
ReportsInputsRendered == ~reportsLoading /\ ~reportsError

\* a date input of Reports: setDateRange, then the effect calls
\* fetchReportData, which runs up to its await
ReportsDateChanged ==
    /\ ReportsInputsRendered
    /\ Cardinality(reportsFetches) < MaxInFlight
    /\ \E next \in DateRanges :
          /\ OneDateChanged(reportsRange, next)
          /\ reportsRange' = next
          /\ reportsFetches' = reportsFetches \cup {next}
    /\ reportsLoading' = TRUE
    /\ reportsError' = FALSE
    /\ UNCHANGED <<dashboardRange, dashboardLoading, dashboardError,
                   dashboardMetrics, dashboardTrends, dashboardFetches,
                   reportData, notRanges>>

\* fetchReportData after its await
ReportsSettle ==
    /\ \E range \in reportsFetches, ok \in BOOLEAN :
          /\ reportsFetches' = reportsFetches \ {range}
          /\ IF ok
             THEN /\ reportData' = range
                  /\ UNCHANGED reportsError
             ELSE /\ reportsError' = TRUE
                  /\ UNCHANGED reportData
    /\ reportsLoading' = FALSE
    /\ UNCHANGED <<dashboardRange, dashboardLoading, dashboardError,
                   dashboardMetrics, dashboardTrends, dashboardFetches,
                   reportsRange, notRanges>>

\* both pages are mounted and their effects have started the first fetch
RangesIdle ==
    /\ dashboardRange = InitialRange
    /\ dashboardLoading = TRUE
    /\ dashboardError = FALSE
    /\ dashboardMetrics = NoData
    /\ dashboardTrends = 0
    /\ dashboardFetches = {[range |-> InitialRange, await |-> "getMetrics"]}
    /\ reportsRange = InitialRange
    /\ reportsLoading = TRUE
    /\ reportsError = FALSE
    /\ reportData = NoData
    /\ reportsFetches = {InitialRange}

RangesNext ==
    \/ DashboardDateChanged
    \/ DashboardMetricsSettle
    \/ DashboardTrendsSettle
    \/ ReportsDateChanged
    \/ ReportsSettle

(***************************************************************************)
(* Specifications                                                          *)
(***************************************************************************)
Init == FetchIdle /\ AppIdle /\ DatesIdle /\ GoalsIdle /\ MetricsIdle /\ ReadsIdle /\ TableIdle /\ HomeIdle /\ AsyncIdle /\ SaveIdle /\ FinanceIdle /\ VisitFormIdle /\ RangesIdle

InitDates == FetchIdle /\ AppIdle /\ DatesStart /\ GoalsIdle /\ MetricsIdle /\ ReadsIdle /\ TableIdle /\ HomeIdle /\ AsyncIdle /\ SaveIdle /\ FinanceIdle /\ VisitFormIdle /\ RangesIdle

SpecFetch == Init /\ [][FetchNext]_vars

Spec == Init /\ [][AppNext]_vars

SpecDates == InitDates /\ [][DatesNext]_vars

SpecGoals == Init /\ [][GoalsNext]_vars

SpecRoundTrip == Init /\ [][RoundTripNext]_vars

SpecMetrics == Init /\ [][MetricsNext]_vars

SpecSearch == Init /\ [][SearchNext]_vars

SpecReads == Init /\ [][ReadsNext]_vars

SpecTable == Init /\ [][TableNext]_vars

SpecHome == Init /\ [][HomeNext]_vars

SpecAsync == Init /\ [][AsyncNext]_vars

SpecSave == Init /\ [][SaveNext]_vars

SpecFinance == Init /\ [][FinanceNext]_vars

SpecVisitForm == Init /\ [][VisitFormNext]_vars

SpecRanges == Init /\ [][RangesNext]_vars

SpecDelete == Init /\ [][DeleteNext]_vars


(***************************************************************************)
(* Failed requests (C2)                                                    *)
(***************************************************************************)
\* the step just taken is a handler of PatientRecords or PatientDetail whose
\* create-patient, update-patient, delete-patient or add-visit request failed
FailedRequestStep ==
    /\ route \in {"records", "detail"}
    /\ lastRequest'.op \in {"createPatient", "updatePatient", "deletePatient",
                            "addPatientVisit"}
    /\ ~lastRequest'.ok

\* the error of the failed request is on screen: as a toast, or in the form
ErrorShown ==
    \/ toastMessage' = Toast(lastRequest'.error, "error")
    \/ formError' = lastRequest'.error /\ formError' # ""

\* C2: when a create-patient, update-patient, delete-patient or add-visit
\* request fails, the displayed patients, pagination and patientData stay as
\* they were, the handler raises no success toast, and the error is shown.
C2_FailedRequestKeepsData ==
    [][FailedRequestStep =>
          /\ patients' = patients
          /\ pagination' = pagination
          /\ patientData' = patientData
          /\ toastMessage'.type = "success" => toastMessage' = toastMessage
          /\ ErrorShown]_vars

\* a delete failed while the list showed the patient, and the list still does
C2_Witness ==
    /\ route = "records"
    /\ lastRequest.op = "deletePatient"
    /\ ~lastRequest.ok
    /\ lastRequest.target \in patients
    /\ toastMessage.type = "error"

(***************************************************************************)
(* Referential integrity (C4)                                              *)
(***************************************************************************)
\* C4: every visit row and every goals row references an existing patient,
\* and a successful delete-patient leaves no patient row, visit row or goals
\* row of that patient.
C4_RowsReferenceExistingPatients ==
    /\ \A v \in dbVisits : v.client_id \in dbPatients
    /\ \A g \in dbGoals : g.client_id \in dbPatients
    /\ (lastRequest.op = "deletePatient" /\ lastRequest.ok) =>
          /\ lastRequest.target \notin dbPatients
          /\ Dependents(CurrentDb, lastRequest.target) = 0

\* a patient with a visit and a goals row was deleted while another
\* patient's visit stays
C4_Witness ==
    /\ lastRequest.op = "deletePatient"
    /\ lastRequest.ok
    /\ lastRequest.had >= 2
    /\ dbVisits # {}

\* the calendar day a date string denotes
DayOfText(s) ==
    IF IsIsoDate(s)
    THEN Day(ToNumber(SubSeq(s, 1, 4)), ToNumber(SubSeq(s, 6, 7)), ToNumber(SubSeq(s, 9, 10)))
    ELSE IF IsMMDDYYYY(s)
    THEN Day(ToNumber(SubSeq(s, 7, 10)), ToNumber(SubSeq(s, 1, 2)), ToNumber(SubSeq(s, 4, 5)))
    ELSE Day(0, 0, 0)

\* C3: every date string placed in an API request (visit_date, birthdate,
\* first_visit_date in bodies; start_date, end_date in dashboard and report
\* query strings) is in MM/DD/YYYY form; a YYYY-MM-DD value of a date input
\* is never sent as it is.  (An empty value is no date string.)
C3_RequestDatesAreMMDDYYYY ==
    \A d \in dateRequest.dates : d.value # <<>> => IsMMDDYYYY(d.value)

\* C10: submitting EditPatientForm without touching the birth-date input
\* sends the calendar day the API returned, whether it came as MM/DD/YYYY
\* or as ISO YYYY-MM-DD.
C10_BirthdateRoundTrips ==
    (/\ dateRequest.by = "updatePatient"
     /\ ~birthdateTouched
     /\ patientBirthdate # <<>>)
        => \A d \in dateRequest.dates :
              /\ IsMMDDYYYY(d.value)
              /\ DayOfText(d.value) = DayOfText(patientBirthdate)

\* C5: every `goals` object in a create-patient, update-patient or add-visit
\* request has all thirteen goal keys, each with value 0 or 1, whatever was
\* toggled and whatever latestGoals was loaded; no partial set is sent.
C5_GoalsObjectIsComplete ==
    goalsRequest.included =>
        /\ DOMAIN goalsRequest.goals = GoalKeySet
        /\ Cardinality(DOMAIN goalsRequest.goals) = 13
        /\ \A k \in DOMAIN goalsRequest.goals : goalsRequest.goals[k] \in {0, 1}

\* an update sent from a form that was loaded with a row lacking a key and
\* holding a value that is not 0 or 1, after checkboxes were toggled
C5_Witness ==
    /\ goalsRequest.by = "updatePatient"
    /\ goalsRequest.included
    /\ ~latestGoals.isNull
    /\ "lower_salt" \notin DOMAIN latestGoals.flags
    /\ latestGoals.flags["annual_checkup"] = 2
    /\ goalsToggled
    /\ goalsRequest.goals["quit_smoking"] = 1

\* C6: for every map g of the thirteen goal keys to 0 or 1, EditPatientForm
\* loaded with g as latestGoals and submitted with no checkbox toggled sends
\* a goals object equal to g.
C6_GoalFlagsRoundTrip ==
    (/\ goalsRequest.by = "updatePatient"
     /\ ~goalsToggled
     /\ ~latestGoals.isNull
     /\ latestGoals.flags \in AllGoalFlags)
        => /\ goalsRequest.included
           /\ goalsRequest.goals = latestGoals.flags

\* the map of the example: increased_water on, quit_smoking off
C6_Witness ==
    /\ goalsRequest.by = "updatePatient"
    /\ ~goalsToggled
    /\ ~latestGoals.isNull
    /\ latestGoals.flags \in AllGoalFlags
    /\ latestGoals.flags["increased_water"] = 1
    /\ latestGoals.flags["quit_smoking"] = 0
    /\ goalsRequest.goals["increased_water"] = 1


\* the weights of the two most recent visits
PreviousWeight == visitHistory[Len(visitHistory) - 1]

LatestWeight == visitHistory[Len(visitHistory)]

TwoWeights ==
    /\ Len(visitHistory) >= 2
    /\ PreviousWeight # NoWeight
    /\ LatestWeight # NoWeight

\* C7: with zero or one visit the change computation answers "no data"
\* (latest_changes null or without change fields), divides nothing and
\* fails nowhere, and PatientDetail renders no Recent Changes value.
C7_FewVisitsGiveNoData ==
    Len(visitHistory) < 2 =>
        /\ latestChanges \in NoDataShapes
        /\ ~Truthy(latestChanges.weight_change)
        /\ ~Truthy(latestChanges.weight_percentage_change)
        /\ latestChanges.divisions = 0
        /\ ~recentChanges.failed
        /\ recentChanges.entry.weight = <<>>
        /\ recentChanges.entry.percentage = <<>>

\* a patient with one visit, answered with latest_changes null
C7_Witness ==
    /\ Len(visitHistory) = 1
    /\ visitHistory[1] = 200
    /\ latestChanges.isNull
    /\ ~recentChanges.shown

\* C8: with at least two visits weight_change is the latest weight minus
\* the previous one, written with its sign, and weight_percentage_change is
\* that difference over the previous weight as a percentage with one
\* decimal; 200 then 190 give "-10" and "-5.0%"; PatientDetail shows both.
C8_WeightChangeIsSignedDifference ==
    TwoWeights =>
        LET delta == LatestWeight - PreviousWeight
            percentage == latestChanges.weight_percentage_change
        IN  /\ latestChanges.weight_change = SignedText(delta)
            /\ delta < 0 => latestChanges.weight_change[1] = "-"
            /\ delta > 0 => latestChanges.weight_change[1] = "+"
            /\ PreviousWeight # 0 =>
                  \E tenths \in 0..((Abs(delta) * 1000) \div PreviousWeight + 1) :
                      /\ percentage = (IF delta < 0 THEN <<"-">> ELSE <<>>)
                                        \o OneDecimalText(tenths) \o <<"%">>
                      /\ 2 * Abs(tenths * PreviousWeight - Abs(delta) * 1000)
                            <= PreviousWeight
            /\ (PreviousWeight = 200 /\ LatestWeight = 190) =>
                  /\ latestChanges.weight_change = <<"-", "1", "0">>
                  /\ percentage = <<"-", "5", ".", "0", "%">>
            /\ recentChanges.entry.weight
                  = latestChanges.weight_change \o <<" ", "l", "b", "s">>
            /\ PreviousWeight # 0 =>
                  recentChanges.entry.percentage = <<"(">> \o percentage \o <<")">>

\* the example: 200 lbs, then 190 lbs
C8_Witness ==
    /\ Len(visitHistory) = 2
    /\ PreviousWeight = 200
    /\ LatestWeight = 190
    /\ recentChanges.entry.weight = <<"-", "1", "0", " ", "l", "b", "s">>
    /\ recentChanges.entry.percentage = <<"(", "-", "5", ".", "0", "%", ")">>

\* C9: a percentage change whose denominator is zero is reported as null,
\* not computed by division, and the dashboard shows a null
\* change_percentage as "N/A".
C9_ZeroDenominatorIsNotApplicable ==
    /\ (metricsData.loaded /\ metricsData.previous = 0) =>
          metricsData.change_percentage.isNull
    /\ (metricsData.loaded /\ metricsData.change_percentage.isNull) =>
          statCard.change = <<"N", "/", "A">>
    /\ (TwoWeights /\ PreviousWeight = 0) =>
          /\ latestChanges.weight_percentage_change = NullText
          /\ latestChanges.divisions = 0
          /\ recentChanges.entry.percentage = <<>>

\* three visits in this period, none in the previous one
C9_Witness ==
    /\ metricsData.loaded
    /\ metricsData.previous = 0
    /\ metricsData.count = 3
    /\ statCard.change = <<"N", "/", "A">>

(***************************************************************************)
(* Failed read requests (C11)                                              *)
(***************************************************************************)
\* the step just taken is fetchRecentActivity handling a rejected request
FailedActivityRead ==
    /\ activityRequests' = activityRequests - 1
    /\ activityReply'.to = "getRecentActivity"
    /\ ~activityReply'.ok

\* the step just taken is searchPatients handling a rejected request that is
\* not the backend's "no matching patients" (404)
FailedSearchRead ==
    /\ InFlight(searchRequests') = InFlight(searchRequests) - 1
    /\ ~searchReply'.ok
    /\ ~IsNoResults(searchReply'.message)

\* C11: when a read request fails (recent activity, patient search), the
\* activities list and the search results displayed before the request are
\* left as they were, and an error is surfaced.
C11_FailedReadKeepsDisplayedData ==
    [][/\ FailedActivityRead =>
             /\ activities' = activities
             /\ activityError' # NoActivityError
       /\ FailedSearchRead =>
             /\ searchResults' = searchResults
             /\ searchError' # NoSearchError]_vars


(***************************************************************************)
(* filterPatients (C12) and the client-side search and sort (C13)          *)
(***************************************************************************)
IsBlank(query) == \A i \in DOMAIN query : query[i] \in Whitespace

\* the search term is a substring of the lower-cased name, gender or contact,
\* or of the age written as a decimal string
Matches(patient, term) ==
    \/ \E column \in {"name", "gender", "contact"} :
          IncludesText(ToLowerCase(patient[column]), term)
    \/ IncludesText(NumberToString(patient.age), term)

PositionIn(list, row) == CHOOSE i \in DOMAIN list : list[i] = row

\* C12: filterPatients(patients, q) returns all patients when q is empty or
\* only whitespace; otherwise exactly the patients that the trimmed
\* lower-cased q matches in name, gender, contact or age, in their original
\* order.
C12_FilterPatients ==
    listRequest.by # "none" =>
        IF IsBlank(recordsSearchQuery)
        THEN filteredRows = patientRows
        ELSE LET term == Trim(ToLowerCase(recordsSearchQuery)) IN
             /\ {filteredRows[i] : i \in DOMAIN filteredRows}
                    = {patientRows[i] : i \in {j \in DOMAIN patientRows :
                                                   Matches(patientRows[j], term)}}
             /\ \A i, j \in DOMAIN filteredRows :
                    i < j => PositionIn(patientRows, filteredRows[i])
                                 < PositionIn(patientRows, filteredRows[j])

\* a query with capitals and surrounding blanks keeps one of three rows, and a
\* number keeps the two rows of that age
C12_Witness ==
    /\ Len(patientRows) = 3
    /\ \/ /\ recordsSearchQuery = <<" ", "A", "N", " ">>
          /\ Len(filteredRows) = 1
          /\ filteredRows[1].id = 1
       \/ /\ recordsSearchQuery = <<"4", "2">>
          /\ Len(filteredRows) = 2
          /\ filteredRows[1].id = 3

\* C13: a change of the search text or of the sort column or direction sends
\* no request and leaves patients and pagination as they are; the rows shown
\* are rows of the fetched page.
C13_SearchAndSortAreLocal ==
    [][listRequest'.by \in {"handleSearch", "handleSort"} =>
          /\ ~listRequest'.sent
          /\ patientRows' = patientRows
          /\ pagination' = pagination
          /\ recordsError' = recordsError
          /\ \A i \in DOMAIN shownRows' :
                \E j \in DOMAIN patientRows : patientRows[j] = shownRows'[i]]_vars

\* after a sort to descending order, a search shows fewer rows than the page
\* has, in an order that is not the fetched one
C13_Witness ==
    /\ listRequest.by = "handleSearch"
    /\ sortDirection = "desc"
    /\ ~IsBlank(recordsSearchQuery)
    /\ Len(patientRows) = 3
    /\ Len(shownRows) = 2
    /\ PositionIn(patientRows, shownRows[1]) > PositionIn(patientRows, shownRows[2])


(***************************************************************************)
(* The add-client form's checks (C14)                                      *)
(***************************************************************************)
\* MM/DD/YYYY with the month in 01..12 and the day in 01..31
IsDateWithMonthAndDay(text) ==
    /\ IsMMDDYYYY(text)
    /\ ToNumber(SubSeq(text, 1, 2)) \in 1..12
    /\ ToNumber(SubSeq(text, 4, 5)) \in 1..31

RequiredFieldsFilled(formData) ==
    \A f \in {"first_name", "last_name", "age", "birthdate", "first_visit_date"} :
        formData[f] # <<>>

\* C14: the add-client form sends POST /patients only if the five required
\* fields are non-empty and both dates are MM/DD/YYYY with month 01..12 and
\* day 01..31; otherwise it alerts and sends nothing.
C14_ClientFormSendsOnlyValidDates ==
    clientRequest.submitted =>
        /\ clientRequest.sent =>
              /\ RequiredFieldsFilled(clientForm)
              /\ IsDateWithMonthAndDay(clientForm.birthdate)
              /\ IsDateWithMonthAndDay(clientForm.first_visit_date)
        /\ ~clientRequest.sent => clientAlert # "none"


(***************************************************************************)
(* Visits are immutable (C15)                                              *)
(***************************************************************************)
\* C15: the recorded fields of a visit never change after it is created: a
\* visit that exists before and after a step is the same row, and the only
\* handlers that change the visits at all are those that create a visit,
\* delete a visit, or delete the patient (with its visits).
C15_VisitsAreImmutable ==
    [][/\ \A v \in dbVisits : \A w \in dbVisits' : w.id = v.id => w = v
       /\ dbVisits' # dbVisits =>
             /\ lastRequest'.op \in {"addPatientVisit", "deleteVisit", "deletePatient"}
             /\ lastRequest'.ok]_vars

\* a patient update that replaced the goals succeeded, and the patient's
\* visit still has what it recorded
C15_Witness ==
    /\ lastRequest.op = "updatePatient"
    /\ lastRequest.ok
    /\ \E v \in dbVisits, g \in dbGoals :
          /\ v.client_id = lastRequest.target
          /\ g.client_id = lastRequest.target
          /\ v.has_goals


(***************************************************************************)
(* SearchProvider: stale responses (C17) and the debounce (C18)            *)
(***************************************************************************)
SearchIsQuiet == searchTimers = {} /\ InFlight(searchRequests) = 0

\* C17: whenever no debounce timer is pending and no search request is in
\* flight, searchResults are the results of the current searchQuery (empty
\* after a failed search for it), and they are empty when the query is blank.
C17_ResultsBelongToCurrentQuery ==
    SearchIsQuiet =>
        IF Trim(searchQuery) = <<>>
        THEN searchResults = {}
        ELSE \/ searchResults = SearchHits(searchQuery)
             \/ /\ searchResults = {}
                /\ searchReply.query = searchQuery
                /\ ~searchReply.ok

\* C18: at most one debounce timer is pending, and it is the timer of the
\* current, non-blank query; every change of searchQuery cancels the pending
\* timer; a request is sent only when the timer of the current non-blank query
\* elapses; a blank query clears the results, sets isSearching to false and
\* sends no request.
C18_DebouncedSearch ==
    /\ [](/\ Cardinality(searchTimers) <= 1
          /\ searchTimers \subseteq {searchQuery}
          /\ \A query \in searchTimers : Trim(query) # <<>>)
    /\ [][/\ searchQuery' # searchQuery =>
                /\ searchTimers' \cap searchTimers = {}
                /\ searchRequests' = searchRequests
          /\ \A query \in SearchQueries :
                searchRequests'[query] > searchRequests[query] =>
                    /\ query = searchQuery
                    /\ searchQuery' = searchQuery
                    /\ Trim(query) # <<>>
                    /\ query \in searchTimers
                    /\ query \notin searchTimers'
          /\ (searchQuery' # searchQuery /\ Trim(searchQuery') = <<>>) =>
                /\ searchResults' = {}
                /\ isSearching' = FALSE
                /\ searchTimers' = {}]_vars

\* the request of an earlier query is still in flight while the timer of the
\* current query is pending
C18_Witness ==
    /\ searchTimers = {searchQuery}
    /\ \E query \in SearchQueries :
          query # searchQuery /\ searchRequests[query] > 0


(***************************************************************************)
(* PatientRecords: what a confirmed delete targets (C16)                   *)
(***************************************************************************)
\* C16: a DELETE request is sent only by the confirmation in the modal that a
\* click on a row's Delete button opened, and it targets the patient of that
\* row, whatever Edit fetches are in flight and whatever handlers reset
\* `loading` in between; cancelling the modal sends nothing.
C16_DeleteTargetsClickedRow ==
    [][/\ (deleteCalls' \ deleteCalls # {} \/ deleteSent'.sent) =>
             /\ deleteSent'.by = "handleDeleteConfirm"
             /\ deleteModalOpen
             /\ deleteClicked # 0
             /\ deleteSent'.target = deleteClicked
             /\ deleteCalls' = deleteCalls \cup {deleteClicked}
       /\ deleteSent'.by = "cancel" =>
             /\ ~deleteSent'.sent
             /\ deleteCalls' = deleteCalls]_vars


(***************************************************************************)
(* NewVisitForm: when the payload carries goals (C19)                      *)
(***************************************************************************)
\* the goals the form loaded from its latestGoals prop
GoalsLoadedFromLatest ==
    IF latestGoals.isNull THEN {} ELSE ActiveVisitGoals(latestGoals)

\* C19: the payload NewVisitForm (with the Edit Goals toggle) submits has a
\* `goals` object exactly when goal editing is switched on and the selected
\* goals differ from the goals loaded from latestGoals; the object then has
\* the selected goals.
C19_GoalsSentIffEditedAndChanged ==
    (goalForm = "newVisit" /\ goalsRequest.by = "addPatientVisit") =>
        /\ goalsRequest.included <=>
              (editingGoals /\ selectedGoals # GoalsLoadedFromLatest)
        /\ goalsRequest.included =>
              goalsRequest.goals = NewVisitFormGoals(selectedGoals)

\* submitted with editing switched on after a goal was toggled and toggled
\* back: no goals in the payload
C19_Witness ==
    /\ goalForm = "newVisit"
    /\ goalsRequest.by = "addPatientVisit"
    /\ editingGoals
    /\ goalsToggled
    /\ selectedGoals = GoalsLoadedFromLatest
    /\ selectedGoals # {}
    /\ ~goalsRequest.included


(***************************************************************************)
(* EditPatientForm: one update at a time (C20)                             *)
(***************************************************************************)
\* C20: while an update request started from EditPatientForm is in flight the
\* form's loading flag is true (so its Save button is disabled), and at most
\* one update request is in flight.
C20_OneUpdateInFlight ==
    /\ UpdatesInFlight > 0 => formLoading
    /\ UpdatesInFlight <= 1


(***************************************************************************)
(* SearchProvider: how a failed search ends (C23)                          *)
(***************************************************************************)
\* a step in which a searchPatients call settles with a rejection
SearchFails ==
    /\ InFlight(searchRequests') = InFlight(searchRequests) - 1
    /\ searchReply'.to = "searchPatients"
    /\ ~searchReply'.ok

\* C23: a search that fails with HTTP 404 or a "No matching patients" message
\* ends with empty results and error = null; a search that fails in any other
\* way ends with empty results and error = "Failed to search patients"; in
\* both cases isSearching ends false.
C23_FailedSearchOutcome ==
    [][SearchFails =>
          /\ searchResults' = {}
          /\ isSearching' = FALSE
          /\ searchError' = IF IsNoResults(searchReply'.message)
                            THEN NoSearchError
                            ELSE "Failed to search patients"]_vars


(***************************************************************************)
(* FinancialReports: one report per year (C25)                             *)
(***************************************************************************)
\* C25: the reports list never holds two reports of the same year.
C25_OneReportPerYear == \A year \in OfferedYears : reports[year] <= 1


(***************************************************************************)
(* NewVisitForm: what closing resets (C24)                                 *)
(***************************************************************************)
\* C24: when NewVisitForm goes from open to closed, editingGoals becomes
\* false and selectedGoals are the goals loaded from latestGoals; so a payload
\* submitted later carries goals only if a goal was changed since the form
\* was opened.
C24_ClosingResetsGoalEditing ==
    [][(visitFormIsOpen /\ ~visitFormIsOpen') =>
          /\ editingGoals' = FALSE
          /\ selectedGoals' = GoalsLoadedFromLatest']_vars


(***************************************************************************)
(* Dashboard and Reports: the data belong to the date range (C22)          *)
(***************************************************************************)
\* C22: whenever no fetch is in flight (and the page shows data, not an
\* error), metricsData and trendsData of Dashboard and reportData of Reports
\* are the responses for the current dateRange.
C22_DataBelongToCurrentRange ==
    /\ (dashboardFetches = {} /\ ~dashboardError) =>
          /\ dashboardMetrics = dashboardRange
          /\ dashboardTrends = dashboardRange.end
    /\ (reportsFetches = {} /\ ~reportsError) => reportData = reportsRange


(***************************************************************************)
(* PatientRecords: the page fetched after a delete (C21)                   *)
(***************************************************************************)
\* a step of handleDeleteConfirm in which deletePatient resolved
DeletedFromTable ==
    /\ patientToDelete # 0
    /\ listRequest'.by = "handleDeleteConfirm"
    /\ listRequest'.sent

\* C21: after a successful delete the list is fetched for the current page,
\* except when the deleted patient was the only patient on that page and the
\* page is greater than 1: then the previous page is fetched.  This holds for
\* any search text.
C21_PageFetchedAfterDelete ==
    [][DeletedFromTable =>
          listRequest'.page = IF Len(patientRows) = 1 /\ pagination.page > 1
                              THEN pagination.page - 1
                              ELSE pagination.page]_vars

=============================================================================
